---------------------------- MODULE Spec2Model ----------------------------
(***************************************************************************)
(* Connection protocol engine of uoverse: the wire codec (ser.rs, de.rs),  *)
(* the packet envelope (ultimaonline-net/macros), the per-phase framing    *)
(* codecs (uoverse-server/macros, game/client/codecs.rs, login/client.rs)  *)
(* and the login and game phase machines.                                  *)
(*                                                                         *)
(* Bytes are naturals 0..255.  A 1- or 2-byte integer is a number; a 4-byte*)
(* integer is the pair <<high 16 bits, low 16 bits>> (TLC integers are     *)
(* 32-bit signed, and the wire carries values such as 0xFFFFFFFF).         *)
(***************************************************************************)
EXTENDS Integers, Sequences, FiniteSets, TLC

VARIABLES
    \* --- framing layer driven on its own (one codec, one receive buffer)
    fPhase,     \* the codec (phase) whose Decoder is in use
    fFeed,      \* bytes that have not yet arrived in the receive buffer
    fBuf,       \* the receive buffer (BytesMut src)
    fPre,       \* the receive buffer as it was when decode was last called
    fRes,       \* what the last decode call returned
    fStage,     \* "read" | "decode" | "failed"
    \* --- one packet value taken through the codec
    cPkt,       \* the packet type
    cVal,       \* the value: its fields in declaration order
    cSize,      \* what ser::to_size gave for the value
    cBody,      \* what ser::to_writer wrote for the value
    cOut,       \* what write_packet wrote for the packet
    cBack,      \* what from_packet_data made of cOut
    cStage,     \* "value" | "sized" | "body" | "packet" | "back"
    \* --- one connection and the task that serves it
    driver,     \* "game" (bin/game.rs), "process" (bin/login.rs), "fsm" (LoginFsm)
    pc,         \* the step of the driver's program the task is at
    status,     \* "running" | "done" (returned Ok) | "failed" (returned Err) | "panicked"
    phase,      \* the phase object the task holds
    script,     \* packets the client has yet to send
    wire,       \* bytes the client sent that the server has not read
    rbuf,       \* the read buffer of the Framed
    need,       \* the Framed has to read before it decodes again
    log,        \* frames received and packets written, in order:
                \* [dir, pkt, phase, len, val], len the bytes a frame took,
                \* val the fields of a frame or of the answer to it
    nread,      \* bytes the Framed has read from the socket
    eof,        \* the client closed its side
    dead,       \* the connection is broken: reads and writes fail
    badpass,    \* the password of the AccountLogin does not begin with "test"
    queue,      \* world -> connection channel (InWorldFrameSend)
    qopen,      \* the world still holds the sender of that channel
    toWorld,    \* connection -> world channel (InWorldFrameRecv)
    taken,      \* what run_loop has received from that channel, in order
    frames,     \* iterations run_loop has made
    shutdown,   \* "no" | "requested" (Server::shutdown) | "stopped" (run_loop left)
    \* --- the world loop and the tasks of the connections that are in the world
    registry,   \* Server.clients: the clients' WorldClient, in the order pushed
    task,       \* per client: "new" (in new_client) | "loop" (select!) | "ended"
    npc,        \* per client: the steps of new_client done
    sock,       \* per client: frames its socket has yet to deliver
    inq,        \* per client: the client -> server channel
    outq,       \* per client: the server -> client channel
    wopen,      \* per client: the channel's sender (WorldClient.sender) is open
    written,    \* per client: what the task wrote to the socket, in order
    sent,       \* per client: what went into the server -> client channel, in order
    wpc,        \* run_loop: "check" | "lock_clients" | "recv_check" | "recv_drain" | "send_check" |
                \* "send_state" | "prune" | "sleep" | "close" | "returned_ok" | "returned_err"
    wi,         \* run_loop: the index i of the for loop it is in
    closed_clients, \* run_loop: the indices found closed in this iteration
    ticks,      \* run_loop: frame, the iterations begun
    flag,       \* Server.shutdown
    snap,       \* per client: the client -> server channel when the iteration began
    mark,       \* per client: the length of sent when the iteration began
    live,       \* the registered clients whose task had not ended when the
                \* iteration began
    world,      \* Server.world: mob_x and mob_dir
    locks       \* who holds the mutex of Server.world and of Server.clients

fvars == <<fPhase, fFeed, fBuf, fPre, fRes, fStage>>
cvars == <<cPkt, cVal, cSize, cBody, cOut, cBack, cStage>>

nvars == <<driver, pc, status, phase, script, wire, rbuf, need, log, nread, eof, dead,
           badpass, queue, qopen, toWorld, taken, frames, shutdown>>

wvars == <<registry, task, npc, sock, inq, outq, wopen, written, sent, wpc, wi,
           closed_clients, ticks, flag, snap, mark, live, world, locks>>

vars == <<fvars, cvars, nvars, wvars>>

-----------------------------------------------------------------------------
(* Sequences of bytes *)

None == -1

Take(s, n) == SubSeq(s, 1, n)
Drop(s, n) == SubSeq(s, n + 1, Len(s))
Min(a, b) == IF a < b THEN a ELSE b
Zeros(n) == [i \in 1..n |-> 0]
Fill(n, b) == [i \in 1..n |-> b]
IsPrefix(p, s) == Len(p) <= Len(s) /\ Take(s, Len(p)) = p

\* u16::from_be_bytes / u16::to_be_bytes
from_be_bytes(a, b) == a * 256 + b
to_be_bytes(v) == <<(v \div 256) % 256, v % 256>>

-----------------------------------------------------------------------------
(* Value shapes of the codec.  A packet body is the sequence of its fields *)
(* in declaration order; nested structures and fixed arrays are written    *)
(* flat, as the codec concatenates them without tags or padding.           *)

\* elem is the field list of the element type of a sequence (<<>> otherwise)
UInt(n)     == [k |-> "int",   n |-> n, w |-> n, vals |-> {}, elem |-> <<>>]    \* u8/u16/u32 (i8/i16/i32)
Bool        == [k |-> "bool",  n |-> 1, w |-> 1, vals |-> {}, elem |-> <<>>]
Enum(vals)  == [k |-> "enum",  n |-> 1, w |-> 1, vals |-> vals, elem |-> <<>>]  \* #[repr(u8)] enumeration
FixedStr(n) == [k |-> "array", n |-> n, w |-> 1, vals |-> {}, elem |-> <<>>]    \* FixedStr<n>, [u8; n]
Array16(n)  == [k |-> "array", n |-> n, w |-> 2, vals |-> {}, elem |-> <<>>]    \* [u16; n]
Str         == [k |-> "str",   n |-> 0, w |-> 1, vals |-> {}, elem |-> <<>>]    \* String (NUL-terminated)
\* List<T, LEN_BITS> of types.rs: n is the width of the length prefix in bytes
List(bits, elem) == [k |-> "list", n |-> bits \div 8, w |-> 1, vals |-> {}, elem |-> elem]
\* ListNonTerm<T> of types/list.rs: a Vec<T> that runs to the end of the packet
ListNonTerm(elem) == [k |-> "listnonterm", n |-> 0, w |-> 1, vals |-> {}, elem |-> elem]
\* ListTerm<T, Term> of types/list.rs: n is the width of the terminator in bytes
ListTerm(bits, elem) == [k |-> "listterm", n |-> bits \div 8, w |-> 1, vals |-> {}, elem |-> elem]

MovementRaw  == (0..7) \cup (128..135)
Profession   == 1..7
CharIdentity == 2..7
SkillType    == 0..57
QueryKind    == {4, 5}

EXTENDED_PACKET_ID == 191

\* Packet descriptors: PACKET_ID, EXTENDED_ID, SIZE (None when the packet
\* carries a size field) and the body.  SIZE is the length of the body:
\* from_packet_data hands it to from_reader as the body's budget.
FixedPacket(name, id, size, body) ==
    [name |-> name, id |-> id, ext |-> None, size |-> size, body |-> body]
VarPacket(name, id, body) ==
    [name |-> name, id |-> id, ext |-> None, size |-> None, body |-> body]
ExtendedPacket(name, id, body) ==
    [name |-> name, id |-> EXTENDED_PACKET_ID, ext |-> id, size |-> None, body |-> body]

\* client -> server
ClientHello     == FixedPacket("ClientHello", 239, 20, <<UInt(4), UInt(4), UInt(4), UInt(4), UInt(4)>>)
AccountLogin    == FixedPacket("AccountLogin", 128, 61, <<FixedStr(30), FixedStr(30), UInt(1)>>)
ServerSelection == FixedPacket("ServerSelection", 160, 2, <<UInt(2)>>)
GameLogin       == FixedPacket("GameLogin", 145, 64, <<UInt(4), FixedStr(30), FixedStr(30)>>)
VersionResp     == VarPacket("VersionResp", 189, <<Str>>)
CreateCharacter ==
    FixedPacket("CreateCharacter", 248, 105,
        <<UInt(4), UInt(2), UInt(2), UInt(1), FixedStr(30), UInt(2), UInt(4), UInt(4), UInt(4),
          Enum(Profession), FixedStr(15), Enum(CharIdentity), UInt(1), UInt(1), UInt(1),
          Enum(SkillType), UInt(1), Enum(SkillType), UInt(1),
          Enum(SkillType), UInt(1), Enum(SkillType), UInt(1),
          UInt(2), UInt(2), UInt(2), UInt(2), UInt(2),
          UInt(2), UInt(2), UInt(2), UInt(4), UInt(2), UInt(2)>>)
ClickUse   == FixedPacket("ClickUse", 6, 4, <<UInt(4)>>)
ClickLook  == FixedPacket("ClickLook", 9, 4, <<UInt(4)>>)
Flags      == ExtendedPacket("Flags", 15, <<UInt(1), UInt(4)>>)
Language   == ExtendedPacket("Language", 11, <<FixedStr(4)>>)
WindowSize == ExtendedPacket("WindowSize", 5, <<UInt(4), UInt(4)>>)
ViewRange  == FixedPacket("ViewRange", 200, 1, <<UInt(1)>>)
Query      == FixedPacket("Query", 52, 9, <<UInt(4), Enum(QueryKind), UInt(4)>>)
Request    == FixedPacket("Request", 2, 6, <<Enum(MovementRaw), UInt(1), UInt(4)>>)
PingReq    == FixedPacket("PingReq", 115, 1, <<UInt(1)>>)
\* serials: ListNonTerm<Serial>
EntityBatchQuery == VarPacket("EntityBatchQuery", 214, <<ListNonTerm(<<UInt(4)>>)>>)

Direction            == (0..7) \cup {128}
Notoriety            == 1..7
Race                 == 1..3
EntityFlags          == {0, 1, 2, 4, 8, 16, 32, 64, 128}
LoginRejectionReason == {0, 1, 2, 3, 254, 255}

Rep(n, f) == [i \in 1..n |-> f]

\* server -> client
LoginRejection    == FixedPacket("LoginRejection", 130, 1, <<Enum(LoginRejectionReason)>>)
GameServerHandoff == FixedPacket("GameServerHandoff", 140, 10, <<FixedStr(4), UInt(2), UInt(4)>>)
Features          == FixedPacket("Features", 185, 4, <<UInt(4)>>)
VersionReq        == FixedPacket("VersionReq", 189, 2, <<UInt(2)>>)
\* chars: List<CharInfo, 8> (name, unused), cities: List<CityInfo, 8> (index,
\* city, building, location x y z id, description, unknown_15), flags, unknown_var1
CharList ==
    VarPacket("CharList", 169,
        <<List(8, <<FixedStr(30), FixedStr(30)>>),
          List(8, <<UInt(1), FixedStr(32), FixedStr(32)>> \o Rep(6, UInt(4))),
          UInt(4), UInt(4)>>)
MapChange         == VarPacket("MapChange", 191, <<UInt(2), UInt(1)>>)
LoginConfirmation ==
    FixedPacket("LoginConfirmation", 27, 36,
        <<UInt(4), UInt(4), UInt(2), UInt(2), UInt(2), UInt(2), Enum(Direction),
          UInt(1), UInt(4), FixedStr(14)>>)
LoginComplete     == FixedPacket("LoginComplete", 85, 0, <<>>)
CharStatus ==
    VarPacket("CharStatus", 17,
        <<UInt(4), FixedStr(30), UInt(2), UInt(2), Bool, UInt(1), Bool>>
        \o Rep(3, UInt(2)) \o Rep(4, UInt(2)) \o <<UInt(4), UInt(2), UInt(2), UInt(2),
          Enum(Race), UInt(2), UInt(1), UInt(1)>>
        \o Rep(4, UInt(2)) \o <<UInt(2), UInt(2), UInt(2), UInt(4), Array16(15)>>)
MobLightLevel   == FixedPacket("MobLightLevel", 78, 5, <<UInt(4), UInt(1)>>)
State ==
    FixedPacket("State", 119, 16,
        <<UInt(4), UInt(2), UInt(2), UInt(2), UInt(1), Enum(Direction), UInt(2),
          Enum(EntityFlags), Enum(Notoriety)>>)
\* state: State, items: ListTerm<Item, u32> (serial, type_id, layer, hue)
Appearance ==
    VarPacket("Appearance", 120,
        State.body \o <<ListTerm(32, <<UInt(4), UInt(2), UInt(1), UInt(2)>>)>>)
Success         == FixedPacket("Success", 34, 2, <<UInt(1), Enum(Notoriety)>>)
Reject          == FixedPacket("Reject", 33, 7, <<UInt(1), UInt(2), UInt(2), Enum(MovementRaw), UInt(1)>>)
PingAck         == FixedPacket("PingAck", 115, 1, <<UInt(1)>>)
WorldLightLevel == FixedPacket("WorldLightLevel", 79, 1, <<UInt(1)>>)

-----------------------------------------------------------------------------
(* de.rs: the Deserializer over a BufRead, with its remaining-byte budget. *)
(* Every read takes its bytes from the reader first and is charged to the  *)
(* budget afterwards (track_read).  A result is                            *)
(*   [st, val, rest, remaining]:  st = "ok", or the error                  *)
(*     "io"              Error::Io, UnexpectedEof: the reader ran dry      *)
(*     "past_end"        "read past end of serialized value"               *)
(*     "data_remains"    "data remains after deserializing value"          *)
(*     "string_data"     Error::Data, the string is not ASCII              *)
(*     "invalid_variant" the byte is no discriminant of the enumeration    *)

FieldRes(st, val, rest, remaining) ==
    [st |-> st, val |-> val, rest |-> rest, remaining |-> remaining]

IntValue(buf, n) ==
    CASE n = 1 -> buf[1]
      [] n = 2 -> from_be_bytes(buf[1], buf[2])
      [] OTHER -> <<from_be_bytes(buf[1], buf[2]), from_be_bytes(buf[3], buf[4])>>

\* impl_read_literal (peek = false), deserialize_u8/i8: read, then track_read
read_literal(buf, remaining, n) ==
    IF Len(buf) < n THEN FieldRes("io", 0, <<>>, remaining)
    ELSE IF remaining < n THEN FieldRes("past_end", 0, Drop(buf, n), remaining)
    ELSE FieldRes("ok", IntValue(buf, n), Drop(buf, n), remaining - n)

\* visit_bool of the u8 read: 0 is false, anything else is true
visit_bool(r) ==
    IF r.st = "ok" THEN [r EXCEPT !.val = IF r.val = 0 THEN 0 ELSE 1] ELSE r

\* deserialize_bool
deserialize_bool(buf, remaining) == visit_bool(read_literal(buf, remaining, 1))

\* serde_repr's visitor: a byte that is no discriminant is rejected
visit_repr(r, variants) ==
    IF r.st = "ok" /\ r.val \notin variants
    THEN [r EXCEPT !.st = "invalid_variant", !.val = 0] ELSE r

\* serde_repr: read the u8, then the visitor
deserialize_repr(buf, remaining, variants) ==
    visit_repr(read_literal(buf, remaining, 1), variants)

\* deserialize_tuple(n): n elements of w bytes each, every one read and then
\* charged (FixedStrVisitor::visit_seq, the array visitor of serde)
deserialize_tuple(buf, remaining, n, w) ==
    LET have == Len(buf) \div w         \* elements the reader can still give
        may  == remaining \div w        \* elements the budget still allows
    IN IF n <= have /\ n <= may
       THEN FieldRes("ok",
                     [e \in 1..n |-> IF w = 1 THEN buf[e]
                                     ELSE from_be_bytes(buf[2 * e - 1], buf[2 * e])],
                     Drop(buf, n * w), remaining - n * w)
       ELSE IF have <= may
       THEN FieldRes("io", 0, <<>>, remaining - have * w)
       ELSE FieldRes("past_end", 0, Drop(buf, (may + 1) * w), remaining - may * w)

\* deserialize_string: read bytes up to the first NUL, whatever the budget,
\* then charge them (and the NUL) to the budget, then require ASCII
deserialize_string(buf, remaining) ==
    IF \A i \in 1..Len(buf) : buf[i] # 0 THEN FieldRes("io", 0, <<>>, remaining)
    ELSE LET z == CHOOSE i \in 1..Len(buf) : buf[i] = 0 /\ \A j \in 1..(i - 1) : buf[j] # 0
         IN IF remaining < z THEN FieldRes("past_end", 0, Drop(buf, z), remaining)
            ELSE IF \E j \in 1..(z - 1) : buf[j] >= 128
            THEN FieldRes("string_data", 0, Drop(buf, z), remaining - z)
            ELSE FieldRes("ok", Take(buf, z - 1), Drop(buf, z), remaining - z)

RECURSIVE deserialize_struct(_, _, _, _), next_element(_, _, _)
RECURSIVE ListTerm_visit_seq(_, _, _, _), ListTermElement(_, _, _), ListTermValue(_, _, _)

\* a peek that consumes what it looks at and charges it to the budget
peek_literal_consuming(buf, remaining, n) ==
    IF Len(buf) < n THEN FieldRes("io", 0, <<>>, remaining)
    ELSE IF remaining < n THEN FieldRes("past_end", 0, Drop(buf, n), remaining)
    ELSE FieldRes("ok", IntValue(buf, n), Drop(buf, n), remaining - n)

\* impl_read_literal with peek = true (deserialize_u8: buf[0]): the value
\* is taken from fill_buf(); nothing is consumed and nothing is charged
peek_literal(buf, remaining, n) ==
    IF Len(buf) < n THEN FieldRes("io", 0, buf, remaining)
    ELSE FieldRes("ok", IntValue(buf, n), buf, remaining)

\* deserialize_seq with ListTermVisitor::visit_seq.  Access::next_element_seed
\* is None once remaining is 0, and the visitor returns what it has.
\* Otherwise ListTermElement: TerminatorEnum::variant_seed peeks a Term
\* (fill_buf, nothing consumed or charged); a zero is the terminator, which
\* unit_variant consumes and charges; anything else is an element, read and
\* charged as usual.
ListTerm_visit_seq(f, buf, remaining, elements) ==
    IF remaining = 0 THEN FieldRes("ok", elements, buf, remaining)
    ELSE ListTermElement(f, peek_literal(buf, remaining, f.n), elements)

\* a ListTermElement that takes a value for the terminator when the first
\* half of it is zero
ListTermElement_half(f, p, elements) ==
    IF p.st # "ok" THEN FieldRes(p.st, 0, p.rest, p.remaining)
    ELSE IF (IF f.n = 4 THEN p.val[1] = 0 ELSE p.val = 0)
    THEN IF p.remaining < f.n THEN FieldRes("past_end", 0, Drop(p.rest, f.n), p.remaining)
         ELSE FieldRes("ok", elements, Drop(p.rest, f.n), p.remaining - f.n)
    ELSE ListTermValue(f, deserialize_struct(f.elem, p.rest, p.remaining, <<>>), elements)

\* ListTermElementVisitor::visit_enum on the peeked Term p
ListTermElement(f, p, elements) ==
    IF p.st # "ok" THEN FieldRes(p.st, 0, p.rest, p.remaining)
    ELSE IF p.val = (IF f.n = 4 THEN <<0, 0>> ELSE 0)
    THEN IF p.remaining < f.n THEN FieldRes("past_end", 0, Drop(p.rest, f.n), p.remaining)
         ELSE FieldRes("ok", elements, Drop(p.rest, f.n), p.remaining - f.n)
    ELSE ListTermValue(f, deserialize_struct(f.elem, p.rest, p.remaining, <<>>), elements)

\* ListTermElement::Value(val) => elements.push(val), and the next element
ListTermValue(f, r, elements) ==
    IF r.st # "ok" THEN FieldRes(r.st, 0, r.rest, r.remaining)
    ELSE ListTerm_visit_seq(f, r.rest, r.remaining, Append(elements, r.val))

RECURSIVE Vec_visit_seq(_, _, _, _)

\* VecVisitor::visit_seq: Some(value) => values.push(value), and the next
Vec_push(f, r, elements) ==
    IF r.st # "ok" THEN FieldRes(r.st, 0, r.rest, r.remaining)
    ELSE Vec_visit_seq(f, r.rest, r.remaining, Append(elements, r.val))

\* ListNonTerm (deserialize_newtype_struct) is its Vec<T>: deserialize_seq,
\* whose Access gives None once remaining is 0 and an element otherwise
Vec_visit_seq(f, buf, remaining, elements) ==
    IF remaining = 0 THEN FieldRes("ok", elements, buf, remaining)
    ELSE Vec_push(f, deserialize_struct(f.elem, buf, remaining, <<>>), elements)

\* impl Deserialize for List<T, LEN_BITS>: deserialize_tuple(0, ListVisitor);
\* the Access of deserialize_tuple gives out len elements, so the visitor's
\* next_element for the length is None: "was not prefixed with length value"
List_deserialize(buf, remaining) == FieldRes("message", 0, buf, remaining)

ReadField(f, buf, remaining) ==
    CASE f.k = "int"   -> read_literal(buf, remaining, f.n)
      [] f.k = "bool"  -> deserialize_bool(buf, remaining)
      [] f.k = "enum"  -> deserialize_repr(buf, remaining, f.vals)
      [] f.k = "array" -> deserialize_tuple(buf, remaining, f.n, f.w)
      [] f.k = "str"   -> deserialize_string(buf, remaining)
      [] f.k = "list"  -> List_deserialize(buf, remaining)
      [] f.k = "listterm" -> ListTerm_visit_seq(f, buf, remaining, <<>>)
      [] f.k = "listnonterm" -> Vec_visit_seq(f, buf, remaining, <<>>)

\* deserialize_struct / deserialize_tuple: the fields in declaration order;
\* next_element takes the result r of one field and goes on to the others
next_element(fields, acc, r) ==
    IF r.st # "ok" THEN FieldRes(r.st, acc, r.rest, r.remaining)
    ELSE deserialize_struct(fields, r.rest, r.remaining, Append(acc, r.val))

deserialize_struct(fields, buf, remaining, acc) ==
    IF Len(fields) = 0 THEN FieldRes("ok", acc, buf, remaining)
    ELSE next_element(Tail(fields), acc, ReadField(Head(fields), buf, remaining))

\* match deserializer.remaining { 0 => Ok(t), _ => Err("data remains ...") }
check_remaining(r) ==
    IF r.st = "ok" /\ r.remaining # 0 THEN [r EXCEPT !.st = "data_remains"] ELSE r

\* from_reader: the value, then the budget must be used up exactly
from_reader(body, buf, size) == check_remaining(deserialize_struct(body, buf, size, <<>>))

-----------------------------------------------------------------------------
(* define_codec!: the per-phase codecs.  RecvList is the recv [...] list   *)
(* of the codec in declaration order, SendList the names of its send list. *)
(* chat::OpenWindow and housing::ShowPublicContent of InWorld's recv list  *)
(* are declared in modules outside this source tree and are left out.      *)

GamePhases  == <<"Connected", "CharList", "ClientVersion", "CharSelect", "CharLogin", "InWorld">>
LoginPhases == <<"login::Connected", "login::Hello", "login::Login",
                 "login::ServerSelect", "login::Handoff">>

Codecs == {GamePhases[i] : i \in 1..Len(GamePhases)}
              \cup {LoginPhases[i] : i \in 1..Len(LoginPhases)}

\* a recv list that has Flags in every phase
RecvList_flags(codec) == <<Flags>>

RecvList(codec) ==
    CASE codec = "Connected"           -> <<GameLogin>>
      [] codec = "ClientVersion"       -> <<VersionResp>>
      [] codec = "CharSelect"          -> <<CreateCharacter>>
      [] codec = "InWorld"             -> <<ClickUse, ClickLook, VersionResp, Flags, Language,
                                            WindowSize, ViewRange, Query, Request, PingReq>>
      [] codec = "login::Connected"    -> <<ClientHello>>
      [] codec = "login::Hello"        -> <<AccountLogin>>
      [] codec = "login::ServerSelect" -> <<ServerSelection>>
      [] OTHER                         -> <<>>

SendList(codec) ==
    CASE codec = "CharList"       -> <<"Features", "CharList", "VersionReq">>
      [] codec = "CharLogin"      -> <<"LoginConfirmation", "CharStatus", "LoginComplete">>
      [] codec = "InWorld"        -> <<"Appearance", "MobLightLevel", "State", "Success",
                                       "Reject", "PingAck", "WorldLightLevel">>
      [] codec = "login::Login"   -> <<"LoginRejection", "ServerList">>
      [] codec = "login::Handoff" -> <<"GameServerHandoff">>
      [] OTHER                    -> <<>>

Range(s) == {s[i] : i \in 1..Len(s)}

-----------------------------------------------------------------------------
(* The result of Decoder::decode:                                          *)
(*   kind = "none"   Ok(None): more data is needed                         *)
(*   kind = "frame"  Ok(Some(frame)): pkt names the frame's variant        *)
(*   kind = "err"    Err(e): err names the error                           *)
(* rest is the receive buffer after the call.                              *)

DecRes(kind, pkt, vals, err, rest) ==
    [kind |-> kind, pkt |-> pkt, vals |-> vals, err |-> err, rest |-> rest]

\* FromPacketData::from_packet_data over src.reader(): the header, then the
\* body under the budget the header gives.  Bytes read are gone from src.
Packet(p, r) ==
    IF r.st = "ok" THEN DecRes("frame", p.name, r.val, "", r.rest)
    ELSE DecRes("err", p.name, <<>>, r.st, r.rest)

\* the size field read: the body's budget is field - 1 - 2, less 2 more
\* after the extended id of an extended packet
sized_packet_data(p, field, afterSz) ==
    IF field < 3 THEN DecRes("err", p.name, <<>>, "size_underflow", afterSz)
    ELSE IF p.ext = None THEN Packet(p, from_reader(p.body, afterSz, field - 3))
    ELSE IF Len(afterSz) < 2 THEN DecRes("err", p.name, <<>>, "io", <<>>)
    ELSE IF from_be_bytes(afterSz[1], afterSz[2]) # p.ext
    THEN DecRes("err", p.name, <<>>, "extended_id_mismatch", Drop(afterSz, 2))
    ELSE IF field < 5 THEN DecRes("err", p.name, <<>>, "size_underflow", Drop(afterSz, 2))
    ELSE Packet(p, from_reader(p.body, Drop(afterSz, 2), field - 5))

\* usize::MAX + 1.  The 2^64 of the target is beyond the integers of the
\* checker; what matters of it is that it is above any size field.
USIZE == 2 ^ 30

\* the same where the subtractions wrap (a build without overflow checks)
sized_packet_data_wrapping(p, field, afterSz) ==
    IF p.ext = None THEN Packet(p, from_reader(p.body, afterSz, (field - 3) % USIZE))
    ELSE IF Len(afterSz) < 2 THEN DecRes("err", p.name, <<>>, "io", <<>>)
    ELSE IF from_be_bytes(afterSz[1], afterSz[2]) # p.ext
    THEN DecRes("err", p.name, <<>>, "extended_id_mismatch", Drop(afterSz, 2))
    ELSE Packet(p, from_reader(p.body, Drop(afterSz, 2), (field - 5) % USIZE))

\* what a build makes of from_packet_data's result r: where a usize
\* subtraction underflows, the thread panics if the build has overflow
\* checks (debug) and goes on with the wrapped value if it has not (release)
Builds(p, src, r) ==
    IF r.kind = "err" /\ r.err = "size_underflow"
    THEN {DecRes("panic", p.name, <<>>, "subtract with overflow", r.rest),
          sized_packet_data_wrapping(p, from_be_bytes(src[2], src[3]), Drop(src, 3))}
    ELSE {r}

\* a from_packet_data that reads the id byte and does not compare it
from_packet_data_any_id(p, src) ==
    IF src = <<>> THEN DecRes("err", p.name, <<>>, "io", <<>>)
    ELSE IF p.size # None THEN Packet(p, from_reader(p.body, Drop(src, 1), p.size))
    ELSE IF Len(src) < 3 THEN DecRes("err", p.name, <<>>, "io", <<>>)
    ELSE sized_packet_data(p, from_be_bytes(src[2], src[3]), Drop(src, 3))

from_packet_data(p, src) ==
    IF src = <<>> THEN DecRes("err", p.name, <<>>, "io", <<>>)
    ELSE IF src[1] # p.id THEN DecRes("err", p.name, <<>>, "id_mismatch", Drop(src, 1))
    ELSE IF p.size # None THEN Packet(p, from_reader(p.body, Drop(src, 1), p.size))
    ELSE IF Len(src) < 3 THEN DecRes("err", p.name, <<>>, "io", <<>>)
    ELSE sized_packet_data(p, from_be_bytes(src[2], src[3]), Drop(src, 3))

\* the peeked extended id: Some(chunk[3..5]) for 0xBF, None otherwise
extended_id(src) ==
    IF src[1] = EXTENDED_PACKET_ID THEN from_be_bytes(src[4], src[5]) ELSE None

\* a decoder that matches on the packet id alone
MatchArmById(recv, packet_id, ext) ==
    IF \E i \in 1..Len(recv) : recv[i].id = packet_id
    THEN CHOOSE i \in 1..Len(recv) :
            /\ recv[i].id = packet_id
            /\ \A j \in 1..(i - 1) : recv[j].id # packet_id
    ELSE 0

\* the match arm (#pkts::PACKET_ID, #pkts::EXTENDED_ID) that is taken: the
\* index of the first packet of the recv list with that pair, 0 if none
MatchArm(recv, packet_id, ext) ==
    IF \E i \in 1..Len(recv) : recv[i].id = packet_id /\ recv[i].ext = ext
    THEN CHOOSE i \in 1..Len(recv) :
            /\ recv[i].id = packet_id /\ recv[i].ext = ext
            /\ \A j \in 1..(i - 1) : ~(recv[j].id = packet_id /\ recv[j].ext = ext)
    ELSE 0

\* let ready = match SIZE { Some(size) if size <= remaining, None => ... }
Ready(p, src) ==
    IF p.size # None THEN p.size <= Len(src)
    ELSE Len(src) >= 3 /\ from_be_bytes(src[2], src[3]) <= Len(src)

\* match (packet_id, extended_id): the arm taken, or the error of no arm
DecodeArm(recv, arm, src) ==
    IF arm = 0 THEN DecRes("err", "", <<>>, "unexpected_id", src)
    ELSE IF Ready(recv[arm], src) THEN from_packet_data(recv[arm], src)
    ELSE DecRes("none", "", <<>>, "", src)

\* Decoder::decode
Decode(codec, src) ==
    IF src = <<>> THEN DecRes("none", "", <<>>, "", src)
    ELSE IF src[1] = EXTENDED_PACKET_ID /\ Len(src) < 5 THEN DecRes("none", "", <<>>, "", src)
    ELSE DecodeArm(RecvList(codec), MatchArm(RecvList(codec), src[1], extended_id(src)), src)

-----------------------------------------------------------------------------
(* What a client puts on the wire.  Wire(p, body) is the envelope that     *)
(* from_packet_data takes apart: the id, for a packet without SIZE the     *)
(* 16-bit big-endian length of the whole packet, for an extended packet    *)
(* the 16-bit extended id, then the body.                                  *)

Wire(p, body) ==
    IF p.size # None THEN <<p.id>> \o body
    ELSE IF p.ext = None THEN <<p.id>> \o to_be_bytes(3 + Len(body)) \o body
    ELSE <<p.id>> \o to_be_bytes(5 + Len(body)) \o to_be_bytes(p.ext) \o body

\* the same envelope with a size field that is not the packet's length
WireSized(p, field, body) ==
    IF p.ext = None THEN <<p.id>> \o to_be_bytes(field) \o body
    ELSE <<p.id>> \o to_be_bytes(field) \o to_be_bytes(p.ext) \o body

\* gump::CloseStatus, extended id 0x0C: a packet no codec receives
CloseStatus == ExtendedPacket("CloseStatus", 12, <<UInt(4)>>)

W_ClientHello     == Wire(ClientHello, <<0, 0, 0, 1>> \o <<0, 0, 0, 7, 0, 0, 0, 0, 0, 0, 0, 45, 0, 0, 0, 65>>)
W_AccountLogin    == Wire(AccountLogin, <<116, 101, 115, 116>> \o Zeros(26) \o <<116, 101, 115, 116>> \o Zeros(26) \o <<255>>)
W_ServerSelection == Wire(ServerSelection, <<0, 0>>)
W_GameLogin       == Wire(GameLogin, <<0, 0, 0, 1>> \o <<116>> \o Zeros(29) \o <<116>> \o Zeros(29))
W_VersionResp     == Wire(VersionResp, <<55, 46, 48, 0>>)
W_CreateCharacter == Wire(CreateCharacter, Zeros(9) \o <<65>> \o Zeros(43) \o <<1>> \o Zeros(15) \o <<2>> \o Zeros(35))
W_ClickUse        == Wire(ClickUse, <<0, 0, 48, 57>>)
W_ClickLook       == Wire(ClickLook, <<0, 0, 48, 57>>)
W_Flags           == Wire(Flags, <<10, 255, 255, 255, 255>>)
W_Language        == Wire(Language, <<69, 78, 85, 0>>)
W_WindowSize      == Wire(WindowSize, <<0, 0, 3, 32, 0, 0, 2, 88>>)
W_ViewRange       == Wire(ViewRange, <<18>>)
W_Query           == Wire(Query, <<237, 237, 237, 237, 4, 0, 0, 48, 57>>)
W_Request         == Wire(Request, <<130, 1, 0, 0, 0, 0>>)
W_PingReq         == Wire(PingReq, <<7>>)
W_PingReq42       == Wire(PingReq, <<66>>)
W_CloseStatus     == Wire(CloseStatus, <<0, 0, 48, 57>>)

\* Packets as a correct client sends them, and the packet each one is
WellFormed ==
    { <<ClientHello, W_ClientHello>>, <<AccountLogin, W_AccountLogin>>,
      <<ServerSelection, W_ServerSelection>>, <<GameLogin, W_GameLogin>>,
      <<VersionResp, W_VersionResp>>, <<CreateCharacter, W_CreateCharacter>>,
      <<ClickUse, W_ClickUse>>, <<ClickLook, W_ClickLook>>, <<Flags, W_Flags>>,
      <<Language, W_Language>>, <<WindowSize, W_WindowSize>>, <<ViewRange, W_ViewRange>>,
      <<Query, W_Query>>, <<Request, W_Request>>, <<PingReq, W_PingReq>>,
      <<CloseStatus, W_CloseStatus>> }

\* Packets whose body and envelope disagree, or whose body holds a value
\* the type does not have
\* Flags with a size field of 5 where the packet has 10 bytes:
\* BF 00 05 00 0F 0A FF FF FF FF
W_FlagsShort == WireSized(Flags, 5, <<10, 255, 255, 255, 255>>)

Malformed ==
    { WireSized(VersionResp, 8, <<55, 0, 0, 0, 0>>),     \* body shorter than the size field says
      WireSized(VersionResp, 5, <<55, 46>>),             \* string runs over the end of the packet
      WireSized(VersionResp, 4, <<55, 46, 0>>),          \* string longer than the size field says
      Wire(VersionResp, <<200, 0>>),                     \* not ASCII
      WireSized(WindowSize, 9, <<0, 0, 3, 32>>),         \* half a body
      WireSized(WindowSize, 17, <<0, 0, 3, 32, 0, 0, 2, 88, 0, 0, 0, 0>>),
      Wire(Request, <<85, 1, 0, 0, 0, 0>>),              \* no such movement
      W_FlagsShort,
      <<1, 2, 3>> }                                      \* an id no packet has

Small == {W_PingReq, W_ViewRange, W_VersionResp, W_Flags, W_WindowSize, W_ServerSelection}

Streams ==
    {w[2] : w \in WellFormed} \cup Malformed
        \cup {a \o b : a \in Small \cup Malformed, b \in Small}
        \cup {W_ClientHello \o W_AccountLogin, W_GameLogin \o W_VersionResp}

-----------------------------------------------------------------------------
(* The framing layer on its own: Framed<Io, Codec> as a stream.  Bytes     *)
(* arrive in pieces of any size; decode runs on the buffer after each      *)
(* arrival and again after each frame; an error ends the stream.           *)

NoResult == DecRes("none", "", <<>>, "", <<>>)

\* the other parts of the model at rest
IdleNet ==
    /\ driver = "none" /\ pc = 0 /\ status = "idle" /\ phase = "Start"
    /\ script = <<>> /\ wire = <<>> /\ rbuf = <<>> /\ need = FALSE
    /\ log = <<>> /\ nread = 0 /\ eof = FALSE /\ dead = FALSE /\ badpass = FALSE
    /\ queue = <<>> /\ qopen = FALSE /\ toWorld = <<>> /\ taken = <<>>
    /\ frames = 0 /\ shutdown = "no"

IdleWorld ==
    /\ registry = <<>> /\ task = <<>> /\ npc = <<>> /\ sock = <<>> /\ inq = <<>>
    /\ outq = <<>> /\ wopen = <<>> /\ written = <<>> /\ sent = <<>>
    /\ wpc = "idle" /\ wi = 0 /\ closed_clients = {} /\ ticks = 0 /\ flag = FALSE
    /\ snap = <<>> /\ mark = <<>> /\ live = {} /\ world = <<>> /\ locks = <<>>

IdleFramer ==
    /\ fPhase = "Connected" /\ fFeed = <<>> /\ fBuf = <<>> /\ fPre = <<>>
    /\ fRes = NoResult /\ fStage = "idle"

IdleCodec ==
    /\ cPkt = PingReq /\ cVal = <<>> /\ cSize = 0 /\ cBody = <<>> /\ cOut = <<>>
    /\ cBack = NoResult /\ cStage = "idle"

InitFramer ==
    /\ fPhase \in Codecs
    /\ fFeed \in Streams
    /\ fBuf = <<>>
    /\ fPre = <<>>
    /\ fRes = NoResult
    /\ fStage = "read"
    /\ IdleCodec
    /\ IdleNet
    /\ IdleWorld

\* poll_read on the socket: k more bytes reach the receive buffer
FramerRead(k) ==
    /\ fStage = "read"
    /\ k \in 1..Len(fFeed)
    /\ fBuf' = fBuf \o Take(fFeed, k)
    /\ fFeed' = Drop(fFeed, k)
    /\ fStage' = "decode"
    /\ UNCHANGED <<fPhase, fPre, fRes, cvars, nvars, wvars>>

\* codec.decode(&mut buffer)
FramerDecode ==
    /\ fStage = "decode"
    /\ fRes' = Decode(fPhase, fBuf)
    /\ fPre' = fBuf
    /\ fBuf' = fRes'.rest
    /\ fStage' = CASE fRes'.kind = "none"  -> "read"
                   [] fRes'.kind = "frame" -> "decode"
                   [] OTHER                -> "failed"
    /\ UNCHANGED <<fPhase, fFeed, cvars, nvars, wvars>>

NextFramer ==
    \/ \E k \in 1..Len(fFeed) : FramerRead(k)
    \/ FramerDecode

SpecFramer == InitFramer /\ [][NextFramer]_vars

-----------------------------------------------------------------------------
(* Properties of the framing layer.  fPre is the buffer a decode call was  *)
(* given, fRes what it returned, fRes.rest the buffer it left.             *)

\* the packets of the codec's recv list that carry the id pair of w
Whitelisted(codec, w) ==
    {q \in Range(RecvList(codec)) : q.id = w.id /\ q.ext = w.ext}

\* C4: a complete well-formed packet at the head of the receive buffer is
\* decoded to a frame exactly when its (id, extended id) pair is in the
\* phase's recv list, and then to the variant named after that packet;
\* any other pair is refused with the "unexpected packet id" data error
\* and a phase with an empty recv list refuses every packet.
C4_WhitelistGating ==
    /\ \A w \in WellFormed :
          IsPrefix(w[2], fPre) =>
             IF Whitelisted(fPhase, w[1]) # {}
             THEN /\ fRes.kind = "frame"
                  /\ \E q \in Whitelisted(fPhase, w[1]) : fRes.pkt = q.name
             ELSE /\ fRes.kind = "err"
                  /\ fRes.err = "unexpected_id"
    /\ (RecvList(fPhase) = <<>> /\ Len(fPre) >= 5) =>
          (fRes.kind = "err" /\ fRes.err = "unexpected_id")

C4_Witness ==
    /\ fPhase = "InWorld"
    /\ IsPrefix(W_WindowSize, fPre)
    /\ fRes.kind = "frame"
    /\ fRes.pkt = "WindowSize"

\* the buffer does not hold the whole of the packet q that it begins
Incomplete(q, buf) ==
    IF q.size # None THEN Len(buf) < 1 + q.size
    ELSE Len(buf) < 3 \/ Len(buf) < from_be_bytes(buf[2], buf[3])

\* C6: when the buffer does not yet hold a complete packet (it is empty,
\* it begins with 0xBF and has fewer than 5 bytes, it begins a fixed-length
\* packet and has fewer bytes than the packet's wire length, or it begins a
\* sized packet and has fewer than 3 bytes or fewer than the size field
\* says), decode returns "need more data" and leaves the buffer unchanged.
C6_NeedMoreData ==
    (\/ fPre = <<>>
     \/ (fPre[1] = EXTENDED_PACKET_ID /\ Len(fPre) < 5)
     \/ \E q \in Range(RecvList(fPhase)) :
           /\ q.id = fPre[1]
           /\ q.ext = extended_id(fPre)
           /\ Incomplete(q, fPre))
    => (fRes.kind = "none" /\ fRes.rest = fPre)

\* the number of bytes the packet q at the head of buf has on the wire
WireLen(q, buf) ==
    IF q.size # None THEN 1 + q.size ELSE from_be_bytes(buf[2], buf[3])

\* C7: a decode of a complete packet either yields the frame and consumes
\* exactly that packet's bytes, leaving the bytes that follow untouched, or
\* fails with a deserialization error ("data remains" when the body is
\* shorter than its budget, "read past end" when it is longer): it never
\* fails because the reader ran dry.
C7_ExactConsumption ==
    \A q \in Range(RecvList(fPhase)) :
       (/\ fPre # <<>>
        /\ (fPre[1] = EXTENDED_PACKET_ID => Len(fPre) >= 5)
        /\ q.id = fPre[1]
        /\ q.ext = extended_id(fPre)
        /\ ~Incomplete(q, fPre))
       => /\ fRes.kind # "none"
          /\ fRes.kind = "frame" => fRes.rest = Drop(fPre, WireLen(q, fPre))
          /\ fRes.kind = "err" =>
                fRes.err \in {"data_remains", "past_end", "string_data", "invalid_variant"}

\* C23 as stated: the bytes BF 00 05 00 0F 0A FF FF FF FF are decoded to a
\* Flags frame in InWorld and refused as an unexpected packet id in
\* CharList.
C23_ShortFlagsAccepted ==
    /\ (fPhase = "InWorld" /\ fPre = W_FlagsShort) =>
          (fRes.kind = "frame" /\ fRes.pkt = "Flags")
    /\ (fPhase = "CharList" /\ fPre = W_FlagsShort) =>
          (fRes.kind = "err" /\ fRes.err = "unexpected_id")

\* C23: the bytes BF 00 0A 00 0F 0A FF FF FF FF, whose size field is the
\* length of the packet, are decoded in InWorld to a Flags frame with the
\* fields 0x0A and 0xFFFFFFFF, all ten bytes consumed; in CharList the same
\* bytes, and the bytes with the size field 00 05, are refused as an
\* unexpected packet id and stay in the buffer; in InWorld the bytes with
\* the size field 00 05 fail with "read past end".
C23_ExtendedGating ==
    /\ (fPhase = "InWorld" /\ fPre = W_Flags) =>
          /\ fRes.kind = "frame" /\ fRes.pkt = "Flags"
          /\ fRes.vals = <<10, <<65535, 65535>>>>
          /\ fRes.rest = <<>>
    /\ (fPhase = "CharList" /\ fPre \in {W_Flags, W_FlagsShort}) =>
          /\ fRes.kind = "err" /\ fRes.err = "unexpected_id"
          /\ fRes.rest = fPre
    /\ (fPhase = "InWorld" /\ fPre = W_FlagsShort) =>
          (fRes.kind = "err" /\ fRes.err = "past_end")

C23_Witness ==
    /\ fPhase = "InWorld" /\ fPre = W_Flags
    /\ fRes.kind = "frame" /\ fRes.pkt = "Flags" /\ fBuf = <<>>

-----------------------------------------------------------------------------
(* ser.rs: the Serializer.  One value-walk serves both the size probe      *)
(* (writer = None) and the emitter (writer = Some): each serialize_* adds  *)
(* to self.size and, when there is a writer, writes.  A result is          *)
(* [st, size, out]: the size counted and the bytes written.                *)

SerRes(st, size, out) == [st |-> st, size |-> size, out |-> out]

\* v.to_be_bytes() of a u8, u16 or u32
IntBytes(v, n) ==
    CASE n = 1 -> <<v>>
      [] n = 2 -> to_be_bytes(v)
      [] OTHER -> to_be_bytes(v[1]) \o to_be_bytes(v[2])

\* serialize_bytes of a FixedStr; the elements of an array in order
ArrayBytes(v, n, w) ==
    [i \in 1..(n * w) |->
        IF w = 1 THEN v[i]
        ELSE IF i % 2 = 1 THEN (v[(i + 1) \div 2] \div 256) % 256 ELSE v[i \div 2] % 256]

\* serialize_str: the bytes and a NUL are written; self.size is left alone
serialize_str(v) ==
    IF \A i \in 1..Len(v) : v[i] < 128 THEN SerRes("ok", 0, v \o <<0>>)
    ELSE SerRes("data", 0, <<>>)

RECURSIVE serialize_struct(_, _, _), serialize_elements(_, _, _, _)

\* `for e in &self.0 { tuple_ser.serialize_element(&e)?; }`: the elements
\* v[lo..hi] one after another, up to the first that fails
serialize_elements(elem, v, lo, hi) ==
    IF lo > hi THEN SerRes("ok", 0, <<>>)
    ELSE IF lo = hi THEN serialize_struct(elem, v[lo], SerRes("ok", 0, <<>>))
    ELSE LET mid == (lo + hi) \div 2
             l == serialize_elements(elem, v, lo, mid)
         IN IF l.st # "ok" THEN l
            ELSE LET r == serialize_elements(elem, v, mid + 1, hi)
                 IN SerRes(r.st, l.size + r.size, l.out \o r.out)

\* impl Serialize for List<T, LEN_BITS>: serialize_tuple, the length cast
\* to LEN_BITS bits (`len as u8`, `len as u16`) as the first element, then
\* the elements
List_serialize(f, v) ==
    LET r == serialize_elements(f.elem, v, 1, Len(v))
    IN SerRes(r.st, f.n + r.size, IntBytes(Len(v) % (2 ^ (8 * f.n)), f.n) \o r.out)

\* serialize_bool, serialize_u8/u16/u32 (serde_repr: serialize_u8),
\* serialize_bytes, serialize_str
\* Serialize for ListTerm<T, Term>: the elements, then a zero Term.  The
\* serializer of this source tree has no serialize_newtype_variant; what
\* is written is taken from the description of the format.
ListTerm_serialize(f, v) ==
    SerRes(serialize_elements(f.elem, v, 1, Len(v)).st,
           serialize_elements(f.elem, v, 1, Len(v)).size + f.n,
           serialize_elements(f.elem, v, 1, Len(v)).out \o Zeros(f.n))

serialize_field(f, v) ==
    CASE f.k = "int"   -> SerRes("ok", f.n, IntBytes(v, f.n))
      [] f.k = "bool"  -> SerRes("ok", 1, <<v>>)
      [] f.k = "enum"  -> SerRes("ok", 1, <<v>>)
      [] f.k = "array" -> SerRes("ok", f.n * f.w, ArrayBytes(v, f.n, f.w))
      [] f.k = "str"   -> serialize_str(v)
      [] f.k = "list"  -> List_serialize(f, v)
      [] f.k = "listterm" -> ListTerm_serialize(f, v)

\* serialize_struct / serialize_tuple: the fields one after another
serialize_struct(fields, vals, acc) ==
    IF Len(fields) = 0 THEN acc
    ELSE LET r == serialize_field(Head(fields), Head(vals))
         IN IF r.st # "ok" THEN SerRes(r.st, acc.size, acc.out)
            ELSE serialize_struct(Tail(fields), Tail(vals),
                                  SerRes("ok", acc.size + r.size, acc.out \o r.out))

to_size(fields, vals) == serialize_struct(fields, vals, SerRes("ok", 0, <<>>)).size
to_writer(fields, vals) == serialize_struct(fields, vals, SerRes("ok", 0, <<>>)).out

\* impl From<&T> for Packet<_>: the size field of a packet without SIZE is
\* to_size(val) plus the header, cast to u16
PacketSize(p, vals) ==
    IF p.size # None THEN None
    ELSE IF p.ext = None THEN (to_size(p.body, vals) + 1 + 2) % 65536
    ELSE (to_size(p.body, vals) + 1 + 2 + 2) % 65536

\* Packet { id, size, contents } as the struct it serializes as; contents
\* is (extended id, val) for an extended packet
PacketFields(p) ==
    <<UInt(1)>> \o (IF p.size = None THEN <<UInt(2)>> ELSE <<>>)
                \o (IF p.ext # None THEN <<UInt(2)>> ELSE <<>>) \o p.body

PacketVals(p, vals) ==
    <<p.id>> \o (IF p.size = None THEN <<PacketSize(p, vals)>> ELSE <<>>)
             \o (IF p.ext # None THEN <<p.ext>> ELSE <<>>) \o vals

\* a write_packet that gives every packet a size field
write_packet_sized(p, vals) ==
    <<p.id>> \o to_be_bytes(3 + Len(to_writer(p.body, vals))) \o to_writer(p.body, vals)

\* packets::write_packet: Packet::from(content).to_writer(dst)
write_packet(p, vals) == to_writer(PacketFields(p), PacketVals(p, vals))

-----------------------------------------------------------------------------
(* One value through the codec: the size probe, the emitter, the packet    *)
(* envelope and the way back, as the packet tests drive them               *)
(* (Packet::from(&v).to_writer(..), then T::from_packet_data(..)).         *)

Default(f) ==
    CASE f.k = "int"   -> IF f.n = 4 THEN <<0, 0>> ELSE 0
      [] f.k = "bool"  -> 0
      [] f.k = "enum"  -> CHOOSE v \in f.vals : \A u \in f.vals : v <= u
      [] f.k = "array" -> Zeros(f.n)
      [] f.k = "str"   -> <<>>
      [] f.k = "list"  -> <<>>

DefaultVals(p) == [i \in 1..Len(p.body) |-> Default(p.body[i])]

\* "", "7", "7.0", "1.2.3.4"
Strings == {<<>>, <<55>>, <<55, 46, 48>>, <<49, 46, 50, 46, 51, 46, 52>>}

Words == {0, 1, 256, 65535}

\* "\u{e9}" in UTF-8
E_acute == <<195, 169>>

\* vec![Default::default(); n].into()
DefaultList(f, n) == [e \in 1..n |-> [i \in 1..Len(f.elem) |-> Default(f.elem[i])]]

\* element counts of a List<T, 8>: none, one, the seven slots of the game
\* server's character list, the largest count that fits and the first
\* that does not
ListLens == {0, 1, 7, 2 ^ 8 - 1, 2 ^ 8}

\* a number of CharInfo (60 bytes each) that makes a CharList longer than
\* the 2^16 - 1 a size field can hold
OverLen == 1093

\* mobile::Item values: a fancy shirt with the serial 0x40000001, 1 and 0
ItemValues == {<<serial, 7933, 5, 1837>> : serial \in {<<16384, 1>>, <<0, 1>>, <<0, 0>>}}

\* the lists of at most two of them
ItemLists == {<<>>} \cup {<<a>> : a \in ItemValues} \cup {<<a, b>> : a, b \in ItemValues}

CodecInputs ==
    {<<p, DefaultVals(p)>> : p \in {ClientHello, AccountLogin, GameLogin, CreateCharacter,
                                     ClickUse, ClickLook, ViewRange, LoginConfirmation,
                                     LoginComplete, CharStatus, MobLightLevel, State,
                                     Reject, WorldLightLevel, GameServerHandoff}}
        \cup {<<CharList, <<DefaultList(CharList.body[1], n), DefaultList(CharList.body[2], m),
                             <<0, 0>>, <<0, 0>>>>>> : n \in ListLens, m \in {0, 1}}
        \cup {<<CharList, <<DefaultList(CharList.body[1], OverLen), <<>>, <<0, 0>>, <<0, 0>>>>>>}
        \cup {<<Appearance, DefaultVals(State) \o <<items>>>> : items \in ItemLists}
        \cup {<<p, <<v>>>> : p \in {PingReq, PingAck}, v \in {0, 7, 255}}
        \cup {<<p, <<v>>>> : p \in {ServerSelection, VersionReq}, v \in Words}
        \cup {<<Features, <<<<hi, lo>>>>>> : hi \in {0, 255}, lo \in {0, 37595}}
        \cup {<<LoginRejection, <<v>>>> : v \in LoginRejectionReason}
        \cup {<<VersionResp, <<v>>>> : v \in Strings \cup {E_acute}}
        \cup {<<Flags, <<10, <<hi, hi>>>>>> : hi \in {0, 65535}}
        \cup {<<WindowSize, <<<<0, w>>, <<0, 600>>>>>> : w \in {640, 800}}
        \cup {<<Language, <<v>>>> : v \in {<<69, 78, 85, 0>>, Zeros(4), E_acute \o Zeros(2)}}
        \cup {<<MapChange, <<8, m>>>> : m \in 0..1}
        \cup {<<Success, <<0, n>>>> : n \in Notoriety}
        \cup {<<Request, <<m, 1, <<0, 0>>>>>> : m \in MovementRaw}
        \cup {<<Query, <<<<60909, 60909>>, k, <<0, 12345>>>>>> : k \in QueryKind}

\* an Item on the wire: serial 0x400000nn, type_id 0x1A1A, layer 0x1B, hue 0x1C1C
ItemBytes(n) == <<64, 0, 0, n, 26, 26, 27, 28, 28>>

RECURSIVE Items(_)
Items(k) == IF k = 0 THEN <<>> ELSE Items(k - 1) \o ItemBytes(k)

MaxItems == 2

\* what follows the items: the terminator, nothing, the terminator and one
\* more item, half a terminator
Endings == {Zeros(4), <<>>, Zeros(4) \o ItemBytes(9), Zeros(2)}

\* mobile::Appearance packets as received: the state, k items and an ending,
\* under a size field that covers all of it or stops short of the last cut bytes
WireInputs ==
    {<<Appearance,
       <<Appearance.id>> \o to_be_bytes(3 + State.size + Len(Items(k) \o e) - cut)
            \o to_writer(State.body, DefaultVals(State)) \o Items(k) \o e>> :
        k \in 0..MaxItems, e \in Endings, cut \in {0, 2}}

\* packets that share the id 0xBF, with and without an extended id, and
\* one that has another id
Crossed == {Flags, Language, MapChange, PingReq}

\* the bytes of one packet given to the from_packet_data of another
CrossedInputs == {<<p, write_packet(q, DefaultVals(q))>> : p, q \in Crossed}

\* a Serial on the wire: 0x400000nn
SerialBytes(n) == <<64, 0, 0, n>>

RECURSIVE Serials(_)
Serials(k) == IF k = 0 THEN <<>> ELSE Serials(k - 1) \o SerialBytes(k)

\* entity::EntityBatchQuery packets as received: k serials and half of one
\* more or not, alone in the buffer or followed by a PingReq
BatchInputs ==
    {<<EntityBatchQuery, Wire(EntityBatchQuery, Serials(k) \o half) \o next>> :
        k \in 0..MaxItems, half \in {<<>>, <<64, 0>>}, next \in {<<>>, Wire(PingReq, <<7>>)}}

\* a VersionResp and a Language as received, with the string "\u{e9}"
StringInputs ==
    {<<VersionResp, Wire(VersionResp, E_acute \o <<0>>)>>,
     <<Language, Wire(Language, E_acute \o Zeros(2))>>}

\* received bytes whose size field is less than the header it is part of
ShortInputs ==
    {<<VersionResp, WireSized(VersionResp, f, b)>> : f \in {0, 2}, b \in {<<>>, <<49, 0>>}}
       \cup {<<Flags, WireSized(Flags, f, <<1, 0, 0, 0, 2>>)>> : f \in {2, 4}}
       \cup {<<EntityBatchQuery, WireSized(EntityBatchQuery, 1, SerialBytes(1))>>}

InitCodec ==
    /\ \/ /\ \E in \in CodecInputs : cPkt = in[1] /\ cVal = in[2]
          /\ cOut = <<>>
          /\ cStage = "value"
       \/ /\ \E in \in WireInputs \cup CrossedInputs \cup StringInputs \cup BatchInputs
                       \cup ShortInputs : cPkt = in[1] /\ cOut = in[2]
          /\ cVal = <<>>
          /\ cStage = "wire"
    /\ cSize = 0
    /\ cBody = <<>>
    /\ cBack = NoResult
    /\ IdleFramer
    /\ IdleNet
    /\ IdleWorld

\* ser::to_size(&val): an Err ends the run
ToSize ==
    /\ cStage = "value"
    /\ cSize' = to_size(cPkt.body, cVal)
    /\ cStage' = IF serialize_struct(cPkt.body, cVal, SerRes("ok", 0, <<>>)).st = "ok"
                  THEN "sized" ELSE "failed"
    /\ UNCHANGED <<cPkt, cVal, cBody, cOut, cBack, fvars, nvars, wvars>>

\* ser::to_writer(&mut body, &val)
ToWriter ==
    /\ cStage = "sized"
    /\ cBody' = to_writer(cPkt.body, cVal)
    /\ cStage' = "body"
    /\ UNCHANGED <<cPkt, cVal, cSize, cOut, cBack, fvars, nvars, wvars>>

\* Packet::from(&val).to_writer(&mut packet)
WritePacket ==
    /\ cStage = "body"
    /\ cOut' = write_packet(cPkt, cVal)
    /\ cStage' = "packet"
    /\ UNCHANGED <<cPkt, cVal, cSize, cBody, cBack, fvars, nvars, wvars>>

\* T::from_packet_data(&mut packet.as_slice())
ReadBack ==
    /\ cStage \in {"packet", "wire"}
    /\ cBack' \in Builds(cPkt, cOut, from_packet_data(cPkt, cOut))
    /\ cStage' = IF cStage = "wire" THEN "decoded" ELSE "back"
    /\ UNCHANGED <<cPkt, cVal, cSize, cBody, cOut, fvars, nvars, wvars>>

NextCodec == ToSize \/ ToWriter \/ WritePacket \/ ReadBack

SpecCodec == InitCodec /\ [][NextCodec]_vars

\* C8: the 16-bit big-endian size field of a packet that carries one
\* (length-prefixed or extended) equals the number of bytes emitted for the
\* whole packet, whatever the shapes of its fields.
C8_SizeFieldIsLength ==
    (cStage \in {"packet", "back"} /\ cPkt.size = None)
       => from_be_bytes(cOut[2], cOut[3]) = Len(cOut)

\* C9: the size to_size reports for a value is exactly the number of bytes
\* to_writer emits for it, for every shape, NUL-terminated strings included.
C9_SizeMatchesWriter ==
    cStage \in {"body", "packet", "back"} => cSize = Len(cBody)

\* C10: decoding the bytes a packet was encoded to yields the value that
\* was encoded and consumes all of the bytes.
C10_RoundTrip ==
    cStage = "back" => (cBack.kind = "frame" /\ cBack.vals = cVal /\ cBack.rest = <<>>)

\* C26: encoding a List<T, L> with more than 2^L - 1 elements fails and
\* emits nothing (no length prefix holding the count modulo 2^L); for a
\* count that fits the emitted prefix is the number of elements that follow.
C26_ListLengthFits ==
    (cStage \in {"body", "packet", "back"} /\ cPkt = CharList) =>
        /\ \A i \in {1, 2} :
              LET r == serialize_field(cPkt.body[i], cVal[i])
              IN IF Len(cVal[i]) > 2 ^ 8 - 1
                 THEN r.st # "ok" /\ r.out = <<>>
                 ELSE r.st = "ok" /\ r.out[1] = Len(cVal[i])
                                 /\ Len(r.out) = 1 + Len(cVal[i]) * to_size(cPkt.body[i].elem, DefaultList(cPkt.body[i], 1)[1])
        /\ IF Len(cVal[1]) > 2 ^ 8 - 1 THEN cBody = <<>> ELSE cBody[1] = Len(cVal[1])

\* the list region of a received Appearance and the budget its size field
\* leaves for it
ItemsRegion == Drop(cOut, 3 + State.size)
ItemsBudget == from_be_bytes(cOut[2], cOut[3]) - 3 - State.size

\* the region is k items, none beginning with a zero u32, then a zero u32,
\* and the budget ends with it
Terminated(k) ==
    /\ ItemsBudget = 9 * k + 4
    /\ Len(ItemsRegion) >= ItemsBudget
    /\ \A j \in 0..(k - 1) : SubSeq(ItemsRegion, 9 * j + 1, 9 * j + 4) # Zeros(4)
    /\ SubSeq(ItemsRegion, 9 * k + 1, 9 * k + 4) = Zeros(4)

\* C27: decoding a ListTerm stops at the first zero Term-sized value, which
\* is consumed and counted against the budget; a list whose budget runs out
\* before a terminator is seen is an error, never the elements read so far.
C27_TerminatorRequired ==
    (cStage = "decoded" /\ cPkt = Appearance) =>
        /\ cBack.kind = "frame" <=> \E k \in 0..MaxItems : Terminated(k)
        /\ cBack.kind = "frame" =>
              /\ Terminated(Len(cBack.vals[10]))
              /\ cBack.rest = Drop(ItemsRegion, ItemsBudget)

\* Error::de(..): the errors of from_reader
Deserialization == {"past_end", "data_remains"}

\* Error::data(..): the Data errors of the decoders
Data == {"id_mismatch", "extended_id_mismatch", "string_data", "unexpected_id"}

\* C28: from_packet_data returns a Data error and no value when the first
\* byte is not the packet's id ("packet id .. did not match expected ..")
\* and, for an extended packet, when the u16 after the size field is not
\* its extended id ("packet extended id .. did not match expected ..").
C28_IdMismatch ==
    cStage = "decoded" =>
        /\ cOut[1] # cPkt.id =>
              cBack.kind = "err" /\ cBack.err = "id_mismatch" /\ cBack.vals = <<>>
        /\ (cOut[1] = cPkt.id /\ cPkt.ext # None /\ from_be_bytes(cOut[4], cOut[5]) # cPkt.ext) =>
              cBack.kind = "err" /\ cBack.err = "extended_id_mismatch" /\ cBack.vals = <<>>
        /\ cBack.kind = "err" => (cBack.err \in {"id_mismatch", "extended_id_mismatch"}
                                     <=> \/ cOut[1] # cPkt.id
                                         \/ cPkt.ext # None /\ from_be_bytes(cOut[4], cOut[5]) # cPkt.ext)

\* Flags::from_packet_data over the bytes of a Language packet
C28_Witness ==
    /\ cStage = "decoded" /\ cPkt = Flags
    /\ cOut[1] = EXTENDED_PACKET_ID /\ from_be_bytes(cOut[4], cOut[5]) = Language.ext
    /\ cBack.kind = "err" /\ cBack.err = "extended_id_mismatch"

\* the byte string holds a byte that is not ASCII
NonAscii(v) == \E i \in 1..Len(v) : v[i] >= 128

\* C30: a NUL-terminated string or a fixed-size string with a byte >= 0x80
\* is a Data error in both directions: encoding it emits nothing, decoding
\* it yields no value.
C30_AsciiOnly ==
    cPkt \in {VersionResp, Language} =>
        /\ (cStage \notin {"value", "wire", "decoded"} /\ NonAscii(cVal[1])) =>
              /\ cStage = "failed"
              /\ serialize_field(cPkt.body[1], cVal[1]) = SerRes("data", 0, <<>>)
        /\ (cStage = "decoded" /\ NonAscii(Drop(cOut, IF cPkt.ext = None THEN 3 ELSE 5))) =>
              cBack.kind = "err" /\ cBack.err \in Data /\ cBack.vals = <<>>

\* the Item that nine bytes of the wire stand for
ItemValue(b) ==
    <<<<from_be_bytes(b[1], b[2]), from_be_bytes(b[3], b[4])>>,
      from_be_bytes(b[5], b[6]), b[7], from_be_bytes(b[8], b[9])>>

\* C31: the peek for the terminator of a ListTerm moves neither the reader
\* nor the budget and is over before the element is read: a well-formed
\* list decodes, every element comes out whole (its first bytes, which
\* were peeked, included), and the bytes consumed are exactly the bytes
\* charged to the budget.
C31_PeekNeutral ==
    (cStage = "decoded" /\ cPkt = Appearance) =>
        /\ cBack.kind = "frame" =>
              /\ Len(cOut) - Len(cBack.rest) = from_be_bytes(cOut[2], cOut[3])
              /\ \A j \in 1..Len(cBack.vals[10]) :
                    cBack.vals[10][j] = ItemValue(SubSeq(ItemsRegion, 9 * j - 8, 9 * j))
        /\ \A k \in 0..MaxItems :
              Terminated(k) => (cBack.kind = "frame" /\ Len(cBack.vals[10]) = k)

\* two items and the terminator, decoded
C31_Witness ==
    /\ cStage = "decoded" /\ cPkt = Appearance
    /\ Terminated(2)
    /\ cBack.kind = "frame" /\ Len(cBack.vals[10]) = 2 /\ cBack.rest = <<>>

\* the budget the size field of a received EntityBatchQuery leaves its list
BatchBudget == from_be_bytes(cOut[2], cOut[3]) - 3

\* C32: a ListNonTerm that ends a packet is read element after element
\* until the budget is exactly 0 and comes out in wire order (empty when
\* the budget is 0 at once); a budget that is no multiple of the element
\* size is a Deserialization error, never a partial element.
C32_ReadsToBudget ==
    (cStage = "decoded" /\ cPkt = EntityBatchQuery) =>
        IF BatchBudget % 4 = 0
        THEN /\ cBack.kind = "frame"
             /\ cBack.vals = <<[j \in 1..(BatchBudget \div 4) |->
                                  <<<<from_be_bytes(cOut[4 * j], cOut[4 * j + 1]),
                                      from_be_bytes(cOut[4 * j + 2], cOut[4 * j + 3])>>>>]>>
             /\ cBack.rest = Drop(cOut, 3 + BatchBudget)
        ELSE /\ cBack.kind = "err" /\ cBack.vals = <<>>
             /\ cBack.err \in Deserialization

\* a packet with SIZE encodes to SIZE bytes in all
C11_LengthIsSize ==
    (cStage \in {"packet", "back"} /\ cPkt.size # None) => Len(cOut) = cPkt.size

\* the encoding of the item begins with four zero bytes: its serial is 0
ZeroFirst(item) == item[1] = <<0, 0>>

C39_OverlongFails ==
    (cStage \in {"packet", "back"} /\ cPkt.size = None) => Len(cOut) < 2 ^ 16

\* the length of the header of a packet that carries a size field
HeaderLen(p) == IF p.ext = None THEN 3 ELSE 5

\* the received bytes hold a size field, and it is less than the header
ShortSize ==
    /\ cPkt.size = None /\ Len(cOut) >= 3
    /\ from_be_bytes(cOut[2], cOut[3]) < HeaderLen(cPkt)

\* C38: a packet whose size field is less than its header (3, or 5 for an
\* extended packet) is rejected with an error: decoding it does not panic
\* on the subtraction of the header from the size, and gives no frame.
C38_ShortSizeRejected ==
    (cStage = "decoded" /\ ShortSize) => cBack.kind = "err"

\* C11: a packet declared with a fixed size encodes, for every value, to
\* the id byte followed by the bytes of its body and nothing else (no size
\* field): 1 + SIZE bytes, SIZE being the length of the body.
C11_FixedLength ==
    (cStage \in {"packet", "back"} /\ cPkt.size # None)
       => /\ Len(cOut) = 1 + cPkt.size
          /\ cOut = <<cPkt.id>> \o cBody

C11_Witness ==
    cStage = "packet" /\ cPkt = LoginComplete /\ cOut = <<85>>

-----------------------------------------------------------------------------
(* One connection and the task that serves it.  The task runs a program:   *)
(* the awaits of its function in order.  A step is the operation awaited,  *)
(* the packet it is about and the phase object the task holds once the     *)
(* step is over (X::from(state) follows the await without a further one).  *)

Step(op, pkt, to) == [op |-> op, pkt |-> pkt, to |-> to]

\* a handshake that asks for no client version
handshake_no_version ==
    << Step("seed", "",           "Connected"),
       Step("recv", "GameLogin",  "CharList"),
       Step("send", "Features",   "CharList"),
       Step("send", "CharList",   "CharSelect") >>

\* bin/game.rs handshake
handshake ==
    << Step("seed", "",            "Connected"),
       Step("recv", "GameLogin",   "CharList"),
       Step("send", "Features",    "CharList"),
       Step("send", "CharList",    "CharList"),
       Step("send", "VersionReq",  "ClientVersion"),
       Step("recv", "VersionResp", "CharSelect") >>

\* a char_login that sends the status before the confirmation
char_login_status_first ==
    << Step("recv",  "CreateCharacter",   "CharSelect"),
       Step("sleep", "",                  "CharLogin"),
       Step("send",  "MapChange",         "CharLogin"),
       Step("send",  "CharStatus",        "CharLogin"),
       Step("send",  "LoginConfirmation", "CharLogin"),
       Step("send",  "LoginComplete",     "InWorld") >>

\* bin/game.rs char_login
char_login ==
    << Step("recv",  "CreateCharacter",   "CharSelect"),
       Step("sleep", "",                  "CharLogin"),
       Step("send",  "MapChange",         "CharLogin"),
       Step("send",  "LoginConfirmation", "CharLogin"),
       Step("send",  "CharStatus",        "CharLogin"),
       Step("send",  "LoginComplete",     "InWorld") >>

preworld == handshake \o char_login

\* bin/game.rs in_world: server.new_client(), then the select! loop
in_world ==
    << Step("new_client", "", "InWorld"),
       Step("loop",       "", "InWorld") >>

game_process == preworld \o in_world

\* a login that hands off before the client has chosen a server
login_process_early_handoff ==
    << Step("recv", "ClientHello",       "login::Hello"),
       Step("recv", "AccountLogin",      "login::Login"),
       Step("auth", "LoginRejection",    "login::Login"),
       Step("send", "ServerList",        "login::Handoff"),
       Step("send", "GameServerHandoff", "login::Handoff") >>

\* bin/login.rs process
login_process ==
    << Step("recv", "ClientHello",       "login::Hello"),
       Step("recv", "AccountLogin",      "login::Login"),
       Step("auth", "LoginRejection",    "login::Login"),
       Step("send", "ServerList",        "login::ServerSelect"),
       Step("recv", "ServerSelection",   "login::Handoff"),
       Step("send", "GameServerHandoff", "login::Handoff") >>

\* LoginFsm::run: the step of each state in turn
LoginFsm_run ==
    << Step("recv", "ClientHello",       "login::Hello"),
       Step("recv", "AccountLogin",      "login::Login"),
       Step("send", "ServerList",        "login::ServerSelect"),
       Step("recv", "ServerSelection",   "login::Handoff"),
       Step("send", "GameServerHandoff", "login::Handoff") >>

Program(d) ==
    CASE d = "game"    -> game_process
      [] d = "process" -> login_process
      [] d = "fsm"     -> LoginFsm_run

\* The phase types bin/login.rs uses (Connected::new, Hello::from, ...,
\* recv, send): built like the game's, each Framed made from the one before
\* it with its buffers carried over.
login_map_codec == TRUE

\* The Framed of a game phase is made from the one before it by map_codec,
\* which keeps the read buffer; every step of LoginFsm makes its own Framed
\* over &mut self.io and drops it, buffer and all, when the step returns.
KeepsBuffer(d) ==
    CASE d = "game"    -> TRUE
      [] d = "process" -> login_map_codec
      [] d = "fsm"     -> FALSE

\* a task that goes on after an error
Fail_goes_on(d) == "running"

\* An error ends the task with Err; LoginFsm goes to Disconnect and returns.
Fail(d) == IF d = "fsm" THEN "done" ELSE "failed"

-----------------------------------------------------------------------------
(* What the client does: it sends the items of its script one after        *)
(* another, each in one piece, and may close or lose the connection.       *)

Seed == <<0, 0, 0, 1>>

W_AccountLoginBad ==
    Wire(AccountLogin, <<116, 101, 115, 116>> \o Zeros(26) \o <<110, 111, 112, 101>> \o Zeros(26) \o <<255>>)

\* a password of bytes that are no UTF-8 text
W_AccountLoginRaw ==
    Wire(AccountLogin, <<116, 101, 115, 116>> \o Zeros(26) \o <<255, 254>> \o Zeros(28) \o <<255>>)

\* a password whose fourth character is two bytes long ("abc" and e acute)
W_AccountLoginSplit ==
    Wire(AccountLogin, <<116, 101, 115, 116>> \o Zeros(26) \o <<97, 98, 99, 195, 169>> \o Zeros(25) \o <<255>>)

GameScripts ==
    { <<Seed, W_GameLogin, W_VersionResp, W_CreateCharacter, W_PingReq, W_Request>>,
      <<Seed \o W_GameLogin \o W_VersionResp \o W_CreateCharacter,
        W_Flags \o W_PingReq42 \o W_Request>>,
      <<Seed, W_GameLogin \o W_VersionResp, W_CreateCharacter, W_CloseStatus>>,
      <<Seed \o W_GameLogin \o W_VersionResp \o W_CreateCharacter, Take(W_Request, 3)>>,
      <<Seed \o W_GameLogin \o W_VersionResp \o W_CreateCharacter, W_FlagsShort>>,
      <<Seed, W_GameLogin, W_CreateCharacter>>,
      <<Seed, W_VersionResp>>,
      <<W_GameLogin, W_VersionResp>> }

LoginScripts ==
    { <<W_ClientHello, W_AccountLogin, W_ServerSelection>>,
      <<W_ClientHello \o W_AccountLogin, W_ServerSelection>>,
      <<W_ClientHello, W_AccountLogin \o W_ServerSelection, W_PingReq>>,
      <<W_ClientHello, W_AccountLoginBad, W_ServerSelection>>,
      <<W_ClientHello, W_AccountLoginRaw, W_ServerSelection>>,
      <<W_ClientHello, W_AccountLoginSplit>>,
      <<W_ClientHello, W_ServerSelection>> }

Scripts(d) == IF d = "game" THEN GameScripts ELSE LoginScripts

\* a read takes all the bytes that have arrived, or about half of them
ReadSizes(n) == {n, (n + 1) \div 2}

MaxFrames == 2

Init ==
    /\ driver \in {"game", "process", "fsm"}
    /\ script \in Scripts(driver)
    /\ pc = 1
    /\ status = "running"
    /\ phase = IF driver = "game" THEN "Start" ELSE "login::Connected"
    /\ wire = <<>> /\ rbuf = <<>> /\ need = TRUE
    /\ log = <<>> /\ nread = 0
    /\ eof = FALSE /\ dead = FALSE /\ badpass = FALSE
    /\ queue = <<>> /\ qopen = FALSE /\ toWorld = <<>> /\ taken = <<>>
    /\ frames = 0 /\ shutdown = "no"
    /\ IdleFramer
    /\ IdleCodec
    /\ IdleWorld

\* a task that is never over
Running_ever == pc \in 1..Len(Program(driver))

Running == status = "running" /\ pc \in 1..Len(Program(driver))

Current == Program(driver)[pc]

\* game/client.rs: the phases whose Framed holds its codec inside a
\* CompressionCodec (CharList, CharLogin, InWorld); Connected, ClientVersion
\* and CharSelect hold the codec itself, and so does every login phase
Compressing == {"CharList", "CharLogin", "InWorld"}

\* huffman::compress(bytes): one bit stream made of the bytes of one call,
\* padded to a whole byte
compress(bytes) == [how |-> "huffman", of |-> bytes]

\* dst.put(bytes): the bytes as they are
put(bytes) == [how |-> "plain", of |-> bytes]

\* an encoder that puts the inner codec's bytes into dst as they are
CompressionCodec_encode_plain(tmp) == <<put(tmp)>>

\* Encoder for CompressionCodec<C>: the inner codec encodes the packet,
\* whole, into tmp; tmp is compressed in one call and put into dst
CompressionCodec_encode(tmp) == <<compress(tmp)>>

\* framer.send(pkt): what the Framed of phase ph puts into its write buffer
\* for a packet; <<pkt>> stands for the packet's own bytes (id, size field
\* if it has one, body) as the phase's codec writes them
Framed_send(ph, pkt) ==
    IF ph \in Compressing THEN CompressionCodec_encode(<<pkt>>) ELSE <<put(<<pkt>>)>>

Entry(dir, pkt, len) ==
    [dir |-> dir, pkt |-> pkt, phase |-> phase, len |-> len, val |-> <<>>,
     enc |-> IF dir = "send" THEN Framed_send(phase, pkt) ELSE <<>>]

\* the client writes the next item of its script
ClientSend ==
    /\ driver # "none" /\ script # <<>> /\ ~eof /\ ~dead
    /\ wire' = wire \o Head(script)
    /\ script' = Tail(script)
    /\ UNCHANGED <<driver, pc, status, phase, rbuf, need, log, nread, eof, dead, badpass,
                   queue, qopen, toWorld, taken, frames, shutdown, fvars, cvars, wvars>>

\* the client closes its side of the connection
ClientClose ==
    /\ driver # "none" /\ ~eof /\ ~dead
    /\ eof' = TRUE
    /\ UNCHANGED <<driver, pc, status, phase, script, wire, rbuf, need, log, nread, dead,
                   badpass, queue, qopen, toWorld, taken, frames, shutdown, fvars, cvars, wvars>>

\* the connection breaks
ClientReset ==
    /\ driver # "none" /\ ~dead /\ status = "running"
    /\ dead' = TRUE
    /\ UNCHANGED <<driver, pc, status, phase, script, wire, rbuf, need, log, nread, eof,
                   badpass, queue, qopen, toWorld, taken, frames, shutdown, fvars, cvars, wvars>>

\* the step is over: the task holds the next phase object and goes on to
\* the next await, or returns Ok when the program has no more
AdvanceTo ==
    /\ pc' = pc + 1
    /\ phase' = Current.to
    /\ status' = IF pc = Len(Program(driver)) THEN "done" ELSE "running"

\* let _ = socket.read_u32().await; Connected::new(socket)
GameSeed ==
    /\ Running /\ Current.op = "seed"
    /\ dead \/ eof \/ Len(wire) >= 4
    /\ wire' = IF dead THEN wire ELSE Drop(wire, Min(4, Len(wire)))
    /\ AdvanceTo
    /\ UNCHANGED <<driver, script, rbuf, need, log, nread, eof, dead, badpass,
                   queue, qopen, toWorld, taken, frames, shutdown, fvars, cvars, wvars>>

\* Framed::poll_next, the buffer not readable: k bytes come from the socket
ConnRead(k) ==
    /\ Running /\ Current.op \in {"recv", "loop"}
    /\ need /\ ~dead /\ wire # <<>>
    /\ k \in ReadSizes(Len(wire))
    /\ rbuf' = rbuf \o Take(wire, k)
    /\ wire' = Drop(wire, k)
    /\ nread' = nread + k
    /\ need' = FALSE
    /\ UNCHANGED <<driver, pc, status, phase, script, log, eof, dead, badpass,
                   queue, qopen, toWorld, taken, frames, shutdown, fvars, cvars, wvars>>

\* a Client::send that puts the frame at the head of the channel
Client_send_first(q, item) == <<item>> \o q

\* ClientSender for Client: self.sender.send(item), an unbounded channel
Client_send(q, item) == Append(q, item)

\* a byte that continues a character of more than one byte
Continuation(b) == b \in 128..191

\* std::str::from_utf8(&fixed.str) is Ok: every character is well formed
RECURSIVE from_utf8(_)
from_utf8(s) ==
    IF s = <<>> THEN TRUE
    ELSE IF s[1] < 128 THEN from_utf8(Tail(s))
    ELSE IF s[1] \in 194..223
    THEN Len(s) >= 2 /\ Continuation(s[2]) /\ from_utf8(Drop(s, 2))
    ELSE IF s[1] \in 224..239
    THEN /\ Len(s) >= 3
         /\ s[2] \in (IF s[1] = 224 THEN 160..191
                       ELSE IF s[1] = 237 THEN 128..159 ELSE 128..191)
         /\ Continuation(s[3])
         /\ from_utf8(Drop(s, 3))
    ELSE IF s[1] \in 240..244
    THEN /\ Len(s) >= 4
         /\ s[2] \in (IF s[1] = 240 THEN 144..191
                       ELSE IF s[1] = 244 THEN 128..143 ELSE 128..191)
         /\ Continuation(s[3]) /\ Continuation(s[4])
         /\ from_utf8(Drop(s, 4))
    ELSE FALSE

\* &password[..4] is a slice of the str: 4 is at the start of a character
is_char_boundary(s, n) == n = Len(s) \/ (n < Len(s) /\ ~Continuation(s[n + 1]))

\* What follows the receipt of an AccountLogin without an await: both names
\* are turned into &str with expect(), and process takes &password[..4].
\* Any of these panics ends the task where it is.
Panics(d, vals) ==
    \/ ~from_utf8(vals[1])
    \/ ~from_utf8(vals[2])
    \/ d = "process" /\ ~is_char_boundary(vals[2], 4)

\* what the task does with the result r of a decode.  Before the world the
\* frame is the one the step waits for; in the world a PingReq is answered
\* and any other frame goes to the world.
Received(r, got, pong) ==
    IF r.kind = "none"
    THEN /\ need' = TRUE
         /\ UNCHANGED <<pc, status, phase, rbuf, log, badpass, toWorld>>
    ELSE IF r.kind = "err"
    THEN /\ status' = Fail(driver)
         /\ rbuf' = r.rest
         /\ UNCHANGED <<pc, phase, need, log, badpass, toWorld>>
    ELSE IF Current.op = "recv"
    THEN /\ log' = Append(log, got)
         /\ rbuf' = IF KeepsBuffer(driver) THEN r.rest ELSE <<>>
         /\ need' = (rbuf' = <<>>)
         /\ badpass' = IF r.pkt = "AccountLogin"
                       THEN Take(r.vals[2], 4) # <<116, 101, 115, 116>>
                       ELSE badpass
         /\ IF r.pkt = "AccountLogin" /\ Panics(driver, r.vals)
            THEN status' = "panicked" /\ UNCHANGED <<pc, phase>>
            ELSE AdvanceTo
         /\ UNCHANGED toWorld
    ELSE IF r.pkt = "PingReq"
    THEN /\ rbuf' = r.rest
         /\ log' = IF dead THEN Append(log, got) ELSE log \o <<got, pong>>
         /\ status' = IF dead THEN "failed" ELSE status
         /\ UNCHANGED <<pc, phase, need, badpass, toWorld>>
    ELSE /\ rbuf' = r.rest
         /\ log' = Append(log, got)
         /\ toWorld' = Client_send(toWorld, r.pkt)
         /\ UNCHANGED <<pc, status, phase, need, badpass>>

\* the log entry of a frame: the bytes it took are those gone from the buffer
Frame(r) == [Entry("recv", r.pkt, Len(rbuf) - Len(r.rest)) EXCEPT !.val = r.vals]

\* an answer to PingReq that does not carry its val
PongZero(r) == [Entry("send", "PingAck", 0) EXCEPT !.val = <<0>>]

\* Some(PingReq {val}) => state.send(&PingAck {val})
Pong(r) == [Entry("send", "PingAck", 0) EXCEPT !.val = r.vals]

\* Framed::poll_next, the buffer readable: decode
ConnRecv ==
    /\ Running /\ Current.op \in {"recv", "loop"}
    /\ ~need
    /\ \E r \in {Decode(phase, rbuf)} : Received(r, Frame(r), Pong(r))
    /\ UNCHANGED <<driver, script, wire, nread, eof, dead, queue, qopen, taken, frames, shutdown,
                   fvars, cvars, wvars>>

\* an in_world in which the end of the stream is an error
ConnEof_error ==
    /\ Running /\ Current.op \in {"recv", "loop"}
    /\ need /\ ~dead /\ wire = <<>> /\ eof
    /\ status' = Fail(driver)
    /\ UNCHANGED <<driver, pc, phase, script, wire, rbuf, need, log, nread, eof, dead, badpass,
                   queue, qopen, toWorld, taken, frames, shutdown, fvars, cvars, wvars>>

\* Framed::poll_next, the read returns 0 bytes: decode_eof.  With an empty
\* buffer the stream has ended (recv gives None); bytes left over are an
\* error.  Before the world None is "Did not get ... packet"; in the world
\* it ends the loop and the task shuts the socket down.
ConnEof ==
    /\ Running /\ Current.op \in {"recv", "loop"}
    /\ need /\ ~dead /\ wire = <<>> /\ eof
    /\ status' = IF rbuf = <<>> /\ Current.op = "loop" THEN "done" ELSE Fail(driver)
    /\ UNCHANGED <<driver, pc, phase, script, wire, rbuf, need, log, nread, eof, dead, badpass,
                   queue, qopen, toWorld, taken, frames, shutdown, fvars, cvars, wvars>>

\* Framed::poll_next, the read fails
ConnSockErr ==
    /\ Running /\ Current.op \in {"recv", "loop"}
    /\ need /\ dead
    /\ status' = Fail(driver)
    /\ UNCHANGED <<driver, pc, phase, script, wire, rbuf, need, log, nread, eof, dead, badpass,
                   queue, qopen, toWorld, taken, frames, shutdown, fvars, cvars, wvars>>

\* state.send(&pkt).await?; LoginFsm: codec.send(..).await, result dropped
ConnSend ==
    /\ Running /\ Current.op = "send"
    /\ IF ~dead
       THEN /\ log' = Append(log, Entry("send", Current.pkt, 0))
            /\ AdvanceTo
       ELSE IF driver = "fsm"
       THEN /\ AdvanceTo
            /\ UNCHANGED log
       ELSE /\ status' = "failed"
            /\ UNCHANGED <<pc, phase, log>>
    /\ UNCHANGED <<driver, script, wire, rbuf, need, nread, eof, dead, badpass,
                   queue, qopen, toWorld, taken, frames, shutdown, fvars, cvars, wvars>>

\* tokio::time::sleep(1s).await; CharLogin::from(state)
GameSleep ==
    /\ Running /\ Current.op = "sleep"
    /\ AdvanceTo
    /\ UNCHANGED <<driver, script, wire, rbuf, need, log, nread, eof, dead, badpass,
                   queue, qopen, toWorld, taken, frames, shutdown, fvars, cvars, wvars>>

\* if &password[..4] != "test" { send LoginRejection; return Ok(()) }
LoginAuth ==
    /\ Running /\ Current.op = "auth"
    /\ IF ~badpass
       THEN /\ AdvanceTo
            /\ UNCHANGED log
       ELSE /\ status' = IF dead THEN "failed" ELSE "done"
            /\ log' = IF dead THEN log ELSE Append(log, Entry("send", Current.pkt, 0))
            /\ UNCHANGED <<pc, phase>>
    /\ UNCHANGED <<driver, script, wire, rbuf, need, nread, eof, dead, badpass,
                   queue, qopen, toWorld, taken, frames, shutdown, fvars, cvars, wvars>>

\* server.new_client(): the two channels, enter_world, clients.push
GameNewClient ==
    /\ Running /\ Current.op = "new_client"
    /\ queue' = <<"MobLightLevel", "WorldLightLevel", "Appearance">>
    /\ qopen' = TRUE
    /\ toWorld' = <<>>
    /\ AdvanceTo
    /\ UNCHANGED <<driver, script, wire, rbuf, need, log, nread, eof, dead, badpass,
                   taken, frames, shutdown, fvars, cvars, wvars>>

\* select!: client.receiver.recv() gives a frame: state.send_frame(&packet)
InWorldQueue ==
    /\ Running /\ Current.op = "loop"
    /\ queue # <<>>
    /\ queue' = Tail(queue)
    /\ log' = IF dead THEN log ELSE Append(log, Entry("send", Head(queue), 0))
    /\ status' = IF dead THEN "failed" ELSE status
    /\ UNCHANGED <<driver, pc, phase, script, wire, rbuf, need, nread, eof, dead, badpass,
                   qopen, toWorld, taken, frames, shutdown, fvars, cvars, wvars>>

\* select!: client.receiver.recv() gives None: removed from the world
InWorldEvicted ==
    /\ Running /\ Current.op = "loop"
    /\ queue = <<>> /\ ~qopen
    /\ status' = IF dead THEN "failed" ELSE "done"
    /\ UNCHANGED <<driver, pc, phase, script, wire, rbuf, need, log, nread, eof, dead, badpass,
                   queue, qopen, toWorld, taken, frames, shutdown, fvars, cvars, wvars>>

\* the answers of one iteration to what the client sent: movement::Success
\* for every movement::Request, nothing for anything else
RECURSIVE Answers(_)
Answers(q) ==
    IF q = <<>> THEN <<>>
    ELSE (IF Head(q) = "Request" THEN <<"Success">> ELSE <<>>) \o Answers(Tail(q))

\* Server::run_loop, one iteration: a client whose receiver is gone is
\* removed; the others have their packets taken and get the mobile's State
WorldFrame ==
    /\ driver = "game" /\ shutdown = "no" /\ frames < MaxFrames
    /\ frames' = frames + 1
    /\ IF ~qopen
       THEN UNCHANGED <<queue, qopen, toWorld, taken>>
       ELSE IF status # "running"
       THEN /\ qopen' = FALSE
            /\ UNCHANGED <<queue, toWorld, taken>>
       ELSE /\ queue' = queue \o Answers(toWorld) \o <<"State">>
            /\ toWorld' = <<>>
            /\ taken' = taken \o toWorld
            /\ UNCHANGED qopen
    /\ UNCHANGED <<driver, pc, status, phase, script, wire, rbuf, need, log, nread, eof, dead,
                   badpass, shutdown, fvars, cvars, wvars>>

\* Server::shutdown
ServerShutdown ==
    /\ driver = "game" /\ shutdown = "no"
    /\ shutdown' = "requested"
    /\ UNCHANGED <<driver, pc, status, phase, script, wire, rbuf, need, log, nread, eof, dead,
                   badpass, queue, qopen, toWorld, taken, frames, fvars, cvars, wvars>>

\* WorldClient::close: the world's end of the server -> client queue is
\* closed, whether or not a client holds the other end
close(open) == FALSE

\* Server::run_loop after the loop: client.close() for every client
WorldStop ==
    /\ driver = "game" /\ shutdown = "requested"
    /\ shutdown' = "stopped"
    /\ qopen' = close(qopen)
    /\ UNCHANGED <<driver, pc, status, phase, script, wire, rbuf, need, log, nread, eof, dead,
                   badpass, queue, toWorld, taken, frames, fvars, cvars, wvars>>

Next ==
    \/ ClientSend
    \/ ClientClose
    \/ ClientReset
    \/ GameSeed
    \/ \E k \in ReadSizes(Len(wire)) : ConnRead(k)
    \/ ConnRecv
    \/ ConnEof
    \/ ConnSockErr
    \/ ConnSend
    \/ GameSleep
    \/ LoginAuth
    \/ GameNewClient
    \/ InWorldQueue
    \/ InWorldEvicted
    \/ WorldFrame
    \/ ServerShutdown
    \/ WorldStop

Spec == Init /\ [][Next]_vars

-----------------------------------------------------------------------------
(* Properties of the connection.                                           *)

IsRecv(e) == e.dir = "recv"
IsSend(e) == e.dir = "send"

\* the packets of a log, by name
PktNames(l) == [i \in 1..Len(l) |-> l[i].pkt]

\* b is the phase that follows a in the order given
Follows(order, first, a, b) ==
    \/ a = first /\ b = order[1]
    \/ \E i \in 1..(Len(order) - 1) : a = order[i] /\ b = order[i + 1]

\* one step of a game connection
GameStep ==
    driver = "game" =>
       /\ phase' # phase => Follows(GamePhases, "Start", phase, phase')
       /\ phase' = "InWorld" =>
             IsPrefix(<<"GameLogin", "VersionResp", "CreateCharacter">>,
                      PktNames(SelectSeq(log', IsRecv)))

\* C1: a game connection changes phase only to the next phase of the order
\* Connected, CharList, ClientVersion, CharSelect, CharLogin, InWorld (so
\* no phase is skipped, entered twice or gone back to), and it is in
\* InWorld only when the frames it has received begin with GameLogin,
\* VersionResp, CreateCharacter in that order.
C1_GamePhaseOrder == [][GameStep]_vars

C1_Witness ==
    /\ driver = "game"
    /\ phase = "InWorld"
    /\ status = "running"
    /\ PktNames(SelectSeq(log, IsRecv)) = <<"GameLogin", "VersionResp", "CreateCharacter">>

HandoffSent(l) == \E i \in 1..Len(l) : l[i].dir = "send" /\ l[i].pkt = "GameServerHandoff"

\* one step of a login connection
LoginStep ==
    driver \in {"process", "fsm"} =>
       /\ phase' # phase => Follows(LoginPhases, "Start", phase, phase')
       /\ HandoffSent(log') =>
             /\ PktNames(log') = <<"ClientHello", "AccountLogin", "ServerList",
                                   "ServerSelection", "GameServerHandoff">>
             /\ PktNames(SelectSeq(log', IsSend)) = <<"ServerList", "GameServerHandoff">>
             /\ status' = "done"
       /\ HandoffSent(log) =>
             /\ log' = log
             /\ nread' = nread
             /\ rbuf' = rbuf
             /\ IsPrefix(wire, wire')

\* C2: a login connection changes phase only to the next phase of the order
\* Connected, Hello, Login, ServerSelect, Handoff; when GameServerHandoff
\* has been sent, what went over the connection before it is exactly
\* ClientHello received, AccountLogin received, ServerList sent,
\* ServerSelection received, in that order, and the task has ended; after
\* it the server sends nothing and reads nothing.
C2_LoginPhaseOrder == [][LoginStep]_vars

C2_Witness ==
    /\ driver \in {"process", "fsm"}
    /\ HandoffSent(log)
    /\ status = "done"
    /\ wire # <<>>

\* the bytes the frames of a log took from the receive buffer
RECURSIVE Consumed(_)
Consumed(l) == IF l = <<>> THEN 0 ELSE Head(l).len + Consumed(Tail(l))

\* C3: the receive buffer survives every phase change: while the task runs,
\* every byte read from the socket either went into a frame that was
\* decoded or is still in the receive buffer for the decoder of the present
\* phase (no byte is lost, none is read twice).
C3_BufferSurvives ==
    status = "running" => nread = Consumed(log) + Len(rbuf)

\* C5: every packet the server writes is in the send list of the phase it
\* is written in (so CharLogin writes only LoginConfirmation, CharStatus
\* and LoginComplete, and a phase with an empty send list writes nothing).
C5_OutboundWhitelist ==
    \A i \in 1..Len(log) :
        log[i].dir = "send" => log[i].pkt \in Range(SendList(log[i].phase))

\* what a step adds to the log
Added == SubSeq(log', Len(log) + 1, Len(log'))

\* what a game connection's step adds to the log is written and read as
\* the phase has it
CompressionStep ==
    driver = "game" =>
       /\ IsPrefix(log, log')
       /\ \A i \in 1..Len(Added) :
             IF Added[i].dir = "send"
             THEN Added[i].enc =
                      IF Added[i].phase \in {"Connected", "ClientVersion"}
                      THEN <<put(<<Added[i].pkt>>)>>
                      ELSE <<compress(<<Added[i].pkt>>)>>
             ELSE /\ Decode(Added[i].phase, rbuf).kind = "frame"
                  /\ Decode(Added[i].phase, rbuf).pkt = Added[i].pkt
                  /\ Decode(Added[i].phase, rbuf).vals = Added[i].val

\* C21: on a game connection a packet written in Connected or
\* ClientVersion goes out as plain bytes, and a packet written in any other
\* phase goes out as the result of one compress call over the whole packet,
\* id and size field included; a frame received, in whatever phase, is what
\* the phase's decoder makes of the bytes as they came from the socket.
C21_CompressionByPhase == [][CompressionStep]_vars

C21_Witness ==
    /\ driver = "game" /\ phase = "InWorld"
    /\ \E i, j, k \in 1..Len(log) :
          /\ log[i].dir = "send" /\ log[i].phase = "CharList"
          /\ log[j].dir = "send" /\ log[j].phase = "InWorld" /\ log[j].pkt = "PingAck"
          /\ log[k].dir = "recv" /\ log[k].phase = "InWorld"

\* The TcpStream of a game connection belongs to the task main spawns for
\* it: process shuts it down when in_world has returned Ok, and when process
\* returns Err, or panics, the stream is dropped with the task, which closes
\* it.
socket ==
    CASE status = "running" -> "open"
      [] status = "done"    -> "shutdown"
      [] OTHER              -> "dropped"

\* the task of the connection takes a step
ConnActs ==
    \/ <<pc, status, phase, log, rbuf, need, nread>>' # <<pc, status, phase, log, rbuf, need, nread>>
    \/ queue # <<>> /\ queue' = Tail(queue)

\* the world has closed the channel and nothing is left in it
Evictable == Current.op = "loop" /\ queue = <<>> /\ ~qopen

\* the step is one in which a read or a write of the task gives an I/O error
\* or the decoder a Data error
YieldsError ==
    /\ driver = "game" /\ Running /\ ConnActs
    /\ \/ Current.op = "send" /\ dead
       \/ Current.op \in {"recv", "loop"} /\ need /\ dead
       \/ /\ Current.op \in {"recv", "loop"} /\ need /\ ~dead
          /\ wire = <<>> /\ eof /\ rbuf # <<>>
          /\ queue' = queue /\ ~Evictable
       \/ /\ Current.op \in {"recv", "loop"} /\ ~need
          /\ Decode(phase, rbuf).kind = "err"
          /\ queue' = queue /\ ~Evictable
       \/ /\ Current.op = "loop" /\ dead
          /\ \/ queue' # queue
             \/ /\ ~need /\ log' # log
                /\ Decode(phase, rbuf).kind = "frame"
                /\ Decode(phase, rbuf).pkt = "PingReq"

\* the error of the seed's read is not looked at (let _ = ...): the task
\* goes on to its first recv with nothing to read, and that recv ends it
SeedLost ==
    (driver = "game" /\ Running /\ Current.op = "seed" /\ ConnActs
        /\ (dead \/ Len(wire) < 4)) =>
       /\ log' = <<>> /\ rbuf' = <<>> /\ need' /\ nread' = 0
       /\ dead' \/ (eof' /\ wire' = <<>>)

ErrorStep ==
    /\ YieldsError =>
          /\ status' = "failed"
          /\ pc' = pc /\ phase' = phase /\ nread' = nread /\ toWorld' = toWorld
          /\ IsPrefix(log, log') /\ SelectSeq(Added, IsSend) = <<>>
          /\ socket' = "dropped"
    /\ SeedLost
    /\ (driver = "game" /\ status = "failed") =>
          /\ UNCHANGED <<pc, status, phase, log, rbuf, need, nread, toWorld>>
          /\ frames' # frames => (~qopen' /\ queue' = queue)

Unexpected ==
    /\ driver \in {"process", "fsm"} /\ Running /\ Current.op = "recv" /\ ConnActs
    /\ \/ ~need /\ Decode(phase, rbuf).kind = "err"
       \/ need /\ ~dead /\ wire = <<>> /\ eof
       \/ need /\ dead

LoginAbortStep ==
    /\ Unexpected =>
          /\ status' \in {"done", "failed"}
          /\ pc' = pc /\ phase' = phase /\ log' = log
    /\ (driver \in {"process", "fsm"} /\ status # "running") =>
          UNCHANGED <<pc, status, phase, log, rbuf, need, nread>>

\* C24: when a recv of a login connection (in Connected, Hello or
\* ServerSelect) ends otherwise than with the one frame awaited there, the
\* connection is over: LoginFsm is in Disconnect and run returns, process
\* returns Err; nothing is sent or read afterwards and no later phase is
\* entered.
C24_LoginAborts == [][LoginAbortStep]_vars

C24_Witness ==
    /\ driver = "fsm" /\ status = "done" /\ phase = "login::Hello"
    /\ PktNames(log) = <<"ClientHello">>
    /\ rbuf # <<>>

\* the entries of the log l that are about the packets of the set S
Among(l, S) == SelectSeq(l, LAMBDA e : e.pkt \in S)

\* the entries of the log about the packets of order are the first of
\* order, in its order, the first one received and the others sent
InOrder(order, last) ==
    /\ IsPrefix(PktNames(Among(log, Range(order) \cup {last})), Append(order, last))
    /\ \A i \in 1..Len(Among(log, Range(order))) :
          Among(log, Range(order))[i].dir = (IF i = 1 THEN "recv" ELSE "send")

\* the task is in the select! loop of in_world
InLoop == driver = "game" /\ pc = Len(game_process)

\* recv gives None: the stream has ended and no byte of a frame is left
EndOfStream ==
    /\ need /\ ~dead /\ wire = <<>> /\ eof /\ rbuf = <<>>
    /\ queue' = queue
    /\ status' = "done"

\* client.receiver.recv() gives None: the world has closed the queue and
\* nothing is left in it.  The loop is left without an error; the
\* socket.shutdown() that follows fails on a broken socket.
Eviction ==
    /\ queue = <<>> /\ ~qopen
    /\ status' = IF dead THEN "failed" ELSE "done"

\* an io::Error: of the read, of "bytes remaining on stream" at the end of
\* the stream, of the write of a frame of the queue or of a PingAck
IoError ==
    /\ status' = "failed"
    /\ \/ need /\ dead /\ queue' = queue
       \/ need /\ ~dead /\ wire = <<>> /\ eof /\ rbuf # <<>> /\ queue' = queue
       \/ dead /\ queue # <<>> /\ queue' = Tail(queue)
       \/ /\ dead /\ ~need /\ queue' = queue
          /\ Decode(phase, rbuf).kind = "frame" /\ Decode(phase, rbuf).pkt = "PingReq"
       \/ /\ ~need /\ queue' = queue
          /\ Decode(phase, rbuf).kind = "err" /\ Decode(phase, rbuf).err = "io"

\* the decoder's error, of one of the kinds given
DecodeError(kinds) ==
    /\ status' = "failed"
    /\ ~need /\ queue' = queue
    /\ Decode(phase, rbuf).kind = "err" /\ Decode(phase, rbuf).err \in kinds

\* the step in which the loop is left
LoopEnds == InLoop /\ status = "running" /\ status' # "running"

\* once the loop is left nothing is written and nothing goes to the world
Ended ==
    (InLoop /\ status # "running") =>
        /\ UNCHANGED <<pc, status, phase, log, rbuf, need, nread>>
        /\ toWorld' \in {toWorld, <<>>}

\* the loop of in_world ends only at the end of the stream (with success),
\* on a closed queue, or with an Io or Data error
C29_LoopEndsIoData ==
    [][/\ LoopEnds => (EndOfStream \/ Eviction \/ IoError
                            \/ DecodeError(Data))
       /\ Ended]_vars

LoopEndStep ==
    /\ LoopEnds => (EndOfStream \/ Eviction \/ IoError
                        \/ DecodeError(Data \cup Deserialization))
    /\ Ended

\* C29: the select! loop of in_world ends only in these ways: the end of
\* the stream ends it with success; a closed and drained server -> client
\* queue ends it; an Io, Data or Deserialization error ends it with an
\* error.  After that the task writes no frame and pushes nothing to the
\* world.
C29_LoopEnds == [][LoopEndStep]_vars

\* a frame whose size field leaves its body no budget has ended the loop
C29_Witness ==
    /\ InLoop /\ status = "failed" /\ ~dead /\ qopen
    /\ rbuf = Drop(W_FlagsShort, 6)
    /\ \E i \in 1..Len(log) : log[i].phase = "InWorld" /\ log[i].dir = "send"

\* C25: on a game connection Features, CharList and VersionReq are sent in
\* that order, after GameLogin was received and before VersionResp is
\* received; LoginConfirmation, CharStatus and LoginComplete are sent in
\* that order, after CreateCharacter was received, and all three are sent
\* before new_client registers the connection with the world loop.
C25_SendOrder ==
    driver = "game" =>
       /\ InOrder(<<"GameLogin", "Features", "CharList", "VersionReq">>, "VersionResp")
       /\ InOrder(<<"CreateCharacter", "LoginConfirmation", "CharStatus", "LoginComplete">>,
                  "MobLightLevel")
       /\ pc > Len(preworld) + 1 =>
             PktNames(Among(log, {"CreateCharacter", "LoginConfirmation", "CharStatus",
                                  "LoginComplete"}))
                = <<"CreateCharacter", "LoginConfirmation", "CharStatus", "LoginComplete">>

C25_Witness ==
    /\ driver = "game" /\ qopen /\ status = "running"
    /\ PktNames(SelectSeq(log, IsSend)) =
          <<"Features", "CharList", "VersionReq", "MapChange", "LoginConfirmation",
            "CharStatus", "LoginComplete">>

IsPing(e) == e.dir = "recv" /\ e.pkt = "PingReq"
IsPong(e) == e.dir = "send" /\ e.pkt = "PingAck"

\* one step of a game connection that is in the world
PingStep ==
    (driver = "game" /\ phase = "InWorld") =>
       /\ IsPrefix(log, log')
       /\ (Added # <<>> /\ IsPing(Added[1])) =>
             /\ IF dead THEN Len(Added) = 1 /\ status' = "failed"
                        ELSE /\ Len(Added) = 2
                             /\ IsPong(Added[2])
                             /\ Added[2].val = Added[1].val
                             /\ status' = status
             /\ UNCHANGED <<phase, pc, toWorld, taken, queue, qopen, frames, shutdown>>
       /\ \A i \in 1..Len(Added) :
             IsPong(Added[i]) => (i = 2 /\ IsPing(Added[1]))

\* C12: in the world, a PingReq{val} read from the socket is answered in
\* the same step by exactly one PingAck with the same val (when the socket
\* is broken the write fails and the task ends with the error); the step
\* puts nothing into the channel to the world, changes no phase and
\* involves nothing of the world loop; and a PingAck is written only as
\* the answer to a PingReq.
C12_PingAnsweredLocally == [][PingStep]_vars

C12_Witness ==
    /\ driver = "game" /\ phase = "InWorld" /\ status = "running"
    /\ \E i \in 1..(Len(log) - 1) :
          /\ IsPing(log[i]) /\ log[i].val = <<66>>
          /\ IsPong(log[i + 1]) /\ log[i + 1].val = <<66>>
    /\ "Flags" \in Range(toWorld)

\* the frames for the world that a game connection has decoded, in order
ForWorld(e) == e.dir = "recv" /\ e.phase = "InWorld" /\ e.pkt # "PingReq"

\* C13: the frames other than PingReq decoded in the world are, in the
\* order they were decoded (the order of their bytes on the socket), the
\* frames the world loop has received followed by those still in the
\* channel to it: each is pushed once, none is lost, none overtakes.
C13_InboundOrder ==
    driver = "game" => PktNames(SelectSeq(log, ForWorld)) = taken \o toWorld

C13_Witness ==
    /\ driver = "game"
    /\ taken = <<"Flags", "Request">>
    /\ PktNames(SelectSeq(log, ForWorld)) = <<"Flags", "Request">>

-----------------------------------------------------------------------------
(* The world loop (Server::run_loop) and the tasks of the connections that *)
(* are in the world (in_world), each on its own thread of the runtime.     *)
(* Frames are <<name, argument>>: the sequence of a movement, the val of a *)
(* ping, and <<"State", mob_x, mob_dir>> for a mobile::State.  run_loop holds the *)
(* locks of world and clients from the start of an iteration to its end;   *)
(* what a task does with its channels needs no lock.                       *)

MaxClients == 2
MaxTicks == 2
MaxAlone == 45

Clients == 1..MaxClients

F(name, arg) == <<name, arg>>

\* a new_client that registers the client before enter_world
new_client_push_first == <<"push", "enter_world">>

\* Server::new_client: the channels, enter_world(&mut client), clients.push(client)
new_client == <<"enter_world", "push">>

East == 2
West == 6

\* Server::new: the two mutexes, unlocked
Server_new_locks == [world |-> "free", clients |-> "free"]

\* Server::new: the world
Server_new == [mob_x |-> 3668, mob_dir |-> East]

\* a world whose mobile turns one iteration late
World_update_late(frame, w) ==
    [mob_x |-> IF (frame \div 10) % 2 = 0 THEN (w.mob_x + 1) % (2 ^ 16)
               ELSE (w.mob_x - 1) % (2 ^ 16),
     mob_dir |-> IF frame % 10 = 1
                 THEN (IF w.mob_dir = East THEN West ELSE East)
                 ELSE w.mob_dir]

\* run_loop, "Update world state": mob_x is a u16, frame is the iteration
World_update(frame, w) ==
    [mob_x |-> IF (frame \div 10) % 2 = 0 THEN (w.mob_x + 1) % (2 ^ 16)
               ELSE (w.mob_x - 1) % (2 ^ 16),
     mob_dir |-> IF frame % 10 = 0
                 THEN (IF w.mob_dir = East THEN West
                       ELSE IF w.mob_dir = West THEN East ELSE East)
                 ELSE w.mob_dir]

\* a mobile::State that shows the mobile where it was an iteration before
mobile_State_stale(w) == <<"State", w.mob_x - 1, w.mob_dir>>

\* mobile::State { x: world.mob_x, direction: world.mob_dir, .. }
mobile_State(w) == <<"State", w.mob_x, w.mob_dir>>

\* Server::enter_world: what it sends
enter_world == <<F("MobLightLevel", 30), F("WorldLightLevel", 30), F("Appearance", 0)>>

\* a WorldClient::send that puts the frame at the head of the channel
WorldClient_send_first(q, item) == <<item>> \o q

\* ClientSender for WorldClient: self.sender.send(item), an unbounded channel
WorldClient_send(q, item) == Append(q, item)

RECURSIVE SendAll(_, _)
SendAll(q, items) ==
    IF items = <<>> THEN q ELSE SendAll(WorldClient_send(q, Head(items)), Tail(items))

\* client.sender.is_closed(): the receiver, which the task holds, is gone
is_closed(c) == task[c] = "ended"

\* run_loop, "Receive client packets": movement::Success with the sequence
\* of every movement::Request, nothing for any other frame
RECURSIVE Replies(_)
Replies(q) ==
    IF q = <<>> THEN <<>>
    ELSE (IF Head(q)[1] = "Request" THEN <<F("Success", Head(q)[2])>> ELSE <<>>)
             \o Replies(Tail(q))

\* what is left in the channel when the answer to a Request cannot be sent
RECURSIVE AfterRequest(_)
AfterRequest(q) ==
    IF q = <<>> THEN <<>>
    ELSE IF Head(q)[1] = "Request" THEN Tail(q) ELSE AfterRequest(Tail(q))

\* Vec::remove(i), indices from 1
Vec_remove(v, i) ==
    IF i \in 1..Len(v) THEN SubSeq(v, 1, i - 1) \o SubSeq(v, i + 1, Len(v)) ELSE v

RECURSIVE Ascending(_)
Ascending(S) ==
    IF S = {} THEN <<>>
    ELSE <<CHOOSE x \in S : \A y \in S : x <= y>>
             \o Ascending(S \ {CHOOSE x \in S : \A y \in S : x <= y})

Reverse(q) == [i \in 1..Len(q) |-> q[Len(q) + 1 - i]]

\* the closed indices taken lowest first
closed_ascending(S) == Ascending(S)

\* closed_clients.iter().collect(); sort(); reverse()
closed_sorted_reversed(S) == Reverse(Ascending(S))

\* for i in closed_clients { clients.remove(*i) }
RECURSIVE remove_closed(_, _)
remove_closed(v, idx) ==
    IF idx = <<>> THEN v ELSE remove_closed(Vec_remove(v, Head(idx)), Tail(idx))

\* what the sockets of the clients deliver: the first client moves and
\* looks around, the others move once or ping
WorldScripts(c) ==
    IF c = 1
    THEN { <<F("Request", 1), F("Flags", 0), F("Request", 2)>> }
    ELSE { <<F("Request", 3)>>, <<F("PingReq", 66)>> }

InitWorld ==
    /\ registry = <<>>
    /\ task = [c \in Clients |-> "new"]
    /\ npc = [c \in Clients |-> 0]
    /\ sock \in [Clients -> UNION {WorldScripts(c) : c \in Clients}]
    /\ \A c \in Clients : sock[c] \in WorldScripts(c)
    /\ inq = [c \in Clients |-> <<>>]
    /\ outq = [c \in Clients |-> <<>>]
    /\ wopen = [c \in Clients |-> TRUE]
    /\ written = [c \in Clients |-> <<>>]
    /\ sent = [c \in Clients |-> <<>>]
    /\ wpc = "check" /\ wi = 0 /\ closed_clients = {} /\ ticks = 0 /\ flag = FALSE
    /\ snap = [c \in Clients |-> <<>>]
    /\ mark = [c \in Clients |-> 0]
    /\ live = {}
    /\ world = Server_new
    /\ locks = Server_new_locks
    /\ IdleFramer
    /\ IdleCodec
    /\ IdleNet

\* run_loop is between two iterations: no lock is held
Unlocked == wpc \in {"check", "sleep", "returned_ok", "returned_err"}

loopvars == <<wpc, wi, closed_clients, ticks, snap, mark, live, world, locks>>

\* in_world: server.new_client(), one step of it
TaskNewClient(c) ==
    /\ task[c] = "new" /\ Unlocked
    /\ IF new_client[npc[c] + 1] = "enter_world"
       THEN /\ outq' = [outq EXCEPT ![c] = SendAll(outq[c], enter_world)]
            /\ sent' = [sent EXCEPT ![c] = sent[c] \o enter_world]
            /\ UNCHANGED registry
       ELSE /\ registry' = Append(registry, c)
            /\ UNCHANGED <<outq, sent>>
    /\ npc' = [npc EXCEPT ![c] = npc[c] + 1]
    /\ task' = [task EXCEPT ![c] = IF npc[c] + 1 = Len(new_client) THEN "loop" ELSE "new"]
    /\ UNCHANGED <<sock, inq, wopen, written, flag, loopvars, fvars, cvars, nvars>>

\* select!: state.recv() gives a frame: a PingReq is answered, any other
\* frame goes to the world
TaskSocket(c) ==
    /\ task[c] = "loop" /\ sock[c] # <<>>
    /\ sock' = [sock EXCEPT ![c] = Tail(sock[c])]
    /\ IF Head(sock[c])[1] = "PingReq"
       THEN /\ written' = [written EXCEPT ![c] = Append(written[c], F("PingAck", Head(sock[c])[2]))]
            /\ UNCHANGED inq
       ELSE /\ inq' = [inq EXCEPT ![c] = Client_send(inq[c], Head(sock[c]))]
            /\ UNCHANGED written
    /\ UNCHANGED <<registry, task, npc, outq, wopen, sent, flag, loopvars, fvars, cvars, nvars>>

\* select!: client.receiver.recv() gives a frame: state.send_frame(&packet)
TaskQueue(c) ==
    /\ task[c] = "loop" /\ outq[c] # <<>>
    /\ outq' = [outq EXCEPT ![c] = Tail(outq[c])]
    /\ written' = [written EXCEPT ![c] = Append(written[c], Head(outq[c]))]
    /\ UNCHANGED <<registry, task, npc, sock, inq, wopen, sent, flag, loopvars, fvars, cvars, nvars>>

\* in_world returns: its Client is dropped, and with it the receiver of the
\* server -> client channel and what that channel holds; what the task
\* wrote and was sent is no longer followed
Dropped(c) ==
    /\ task' = [task EXCEPT ![c] = "ended"]
    /\ outq' = [outq EXCEPT ![c] = <<>>]
    /\ written' = [written EXCEPT ![c] = <<>>]
    /\ sent' = [sent EXCEPT ![c] = <<>>]
    /\ sock' = [sock EXCEPT ![c] = <<>>]

\* select!: client.receiver.recv() gives None: the task leaves the loop
TaskEvicted(c) ==
    /\ task[c] = "loop" /\ outq[c] = <<>> /\ ~wopen[c]
    /\ Dropped(c)
    /\ UNCHANGED <<registry, npc, inq, wopen, flag, loopvars, fvars, cvars, nvars>>

\* select!: the socket is at its end, or a read or a write fails: in_world
\* returns and its Client, with both ends of the channels, is dropped
TaskEnd(c) ==
    /\ task[c] = "loop"
    /\ Dropped(c)
    /\ UNCHANGED <<registry, npc, inq, wopen, flag, loopvars, fvars, cvars, nvars>>

\* Server::shutdown
WorldShutdown ==
    /\ wpc # "idle" /\ ~flag
    /\ flag' = TRUE
    /\ UNCHANGED <<registry, task, npc, sock, inq, outq, wopen, written, sent, loopvars,
                   fvars, cvars, nvars>>

\* while !self.shutdown.load(): the loop is left, or an iteration begins
\* (frame += 1, the world moves, the locks are taken)
run_loop_while(max) ==
    /\ wpc = "check"
    /\ IF flag
       THEN /\ wpc' = "close"
            /\ UNCHANGED <<wi, closed_clients, ticks, snap, mark, live, world, locks>>
       ELSE /\ ticks < max
            /\ ticks' = ticks + 1
            /\ world' = World_update(ticks + 1, world)
            /\ locks' = [world |-> "run_loop", clients |-> "run_loop"]
            /\ wpc' = IF registry = <<>> THEN "prune" ELSE "recv_check"
            /\ wi' = 1
            /\ closed_clients' = {}
            /\ snap' = inq
            /\ mark' = [c \in Clients |-> Len(sent[c])]
            /\ live' = {c \in Range(registry) : task[c] # "ended"}
    /\ UNCHANGED <<registry, task, npc, sock, inq, outq, wopen, written, sent, flag,
                   fvars, cvars, nvars>>

WorldCheck == run_loop_while(MaxTicks)

\* the same in a world that no connection enters, which is followed longer
WorldCheckAlone == run_loop_while(MaxAlone)

\* the for loop goes on to its next client, or is over
Continue(this, after) ==
    IF wi < Len(registry) THEN wi' = wi + 1 /\ wpc' = this
    ELSE wi' = 1 /\ wpc' = after

\* first for loop: if client.sender.is_closed() { insert(i); continue }
WorldRecvCheck ==
    /\ wpc = "recv_check"
    /\ IF is_closed(registry[wi])
       THEN closed_clients' = closed_clients \cup {wi} /\ Continue("recv_check", "send_check")
       ELSE wpc' = "recv_drain" /\ UNCHANGED <<wi, closed_clients>>
    /\ UNCHANGED <<registry, task, npc, sock, inq, outq, wopen, written, sent, flag,
                   ticks, snap, mark, live, world, locks, fvars, cvars, nvars>>

\* first for loop: loop { match client.recv()? { None => break, Request =>
\* client.send(Success)?, _ => {} } }.  A send to a channel whose receiver
\* is gone is an error, and the ? returns it from run_loop.
WorldRecvDrain ==
    /\ wpc = "recv_drain"
    /\ \E c \in {registry[wi]} :
          IF is_closed(c) /\ Replies(inq[c]) # <<>>
          THEN /\ wpc' = "returned_err"
               /\ inq' = [inq EXCEPT ![c] = AfterRequest(inq[c])]
               /\ UNCHANGED <<outq, sent, wi>>
          ELSE /\ inq' = [inq EXCEPT ![c] = <<>>]
               /\ outq' = [outq EXCEPT ![c] = SendAll(outq[c], Replies(inq[c]))]
               /\ sent' = [sent EXCEPT ![c] = sent[c] \o Replies(inq[c])]
               /\ Continue("recv_check", "send_check")
    /\ locks' = IF wpc' = "returned_err" THEN Server_new_locks ELSE locks
    /\ UNCHANGED <<registry, task, npc, sock, wopen, written, flag, closed_clients,
                   ticks, snap, mark, live, world, fvars, cvars, nvars>>

\* second for loop: if client.sender.is_closed() { insert(i); continue }
WorldSendCheck ==
    /\ wpc = "send_check"
    /\ IF is_closed(registry[wi])
       THEN closed_clients' = closed_clients \cup {wi} /\ Continue("send_check", "prune")
       ELSE wpc' = "send_state" /\ UNCHANGED <<wi, closed_clients>>
    /\ UNCHANGED <<registry, task, npc, sock, inq, outq, wopen, written, sent, flag,
                   ticks, snap, mark, live, world, locks, fvars, cvars, nvars>>

\* second for loop: client.send(mobile::State { .. }.into())?
WorldSendState ==
    /\ wpc = "send_state"
    /\ \E c \in {registry[wi]} :
          IF is_closed(c)
          THEN /\ wpc' = "returned_err"
               /\ UNCHANGED <<outq, sent, wi>>
          ELSE /\ outq' = [outq EXCEPT ![c] = WorldClient_send(outq[c], mobile_State(world))]
               /\ sent' = [sent EXCEPT ![c] = Append(sent[c], mobile_State(world))]
               /\ Continue("send_check", "prune")
    /\ locks' = IF wpc' = "returned_err" THEN Server_new_locks ELSE locks
    /\ UNCHANGED <<registry, task, npc, sock, inq, wopen, written, flag, closed_clients,
                   ticks, snap, mark, live, world, fvars, cvars, nvars>>

\* the closed clients are removed (their WorldClient is dropped, and with
\* it the sender), and the locks are released
WorldPrune ==
    /\ wpc = "prune"
    /\ registry' = remove_closed(registry, closed_sorted_reversed(closed_clients))
    /\ wopen' = [c \in Clients |->
                    wopen[c] /\ (c \in Range(registry) => c \in Range(registry'))]
    /\ wpc' = "sleep"
    /\ locks' = Server_new_locks
    /\ UNCHANGED <<task, npc, sock, inq, outq, written, sent, flag, wi, closed_clients,
                   ticks, snap, mark, live, world, fvars, cvars, nvars>>

\* tokio::time::sleep(1 s).await; the locals of the iteration are gone
WorldSleep ==
    /\ wpc = "sleep"
    /\ wpc' = "check"
    /\ wi' = 0 /\ closed_clients' = {}
    /\ snap' = [c \in Clients |-> <<>>]
    /\ mark' = [c \in Clients |-> 0]
    /\ live' = {}
    /\ UNCHANGED <<registry, task, npc, sock, inq, outq, wopen, written, sent, flag,
                   ticks, world, locks, fvars, cvars, nvars>>

\* after the loop: client.close() for every client; Ok(())
WorldClose ==
    /\ wpc = "close"
    /\ wopen' = [c \in Clients |-> IF c \in Range(registry) THEN close(wopen[c]) ELSE wopen[c]]
    /\ wpc' = "returned_ok"
    /\ UNCHANGED <<registry, task, npc, sock, inq, outq, written, sent, flag, wi,
                   closed_clients, ticks, snap, mark, live, world, locks, fvars, cvars, nvars>>

TaskStep(c) == TaskNewClient(c) \/ TaskSocket(c) \/ TaskQueue(c) \/ TaskEvicted(c) \/ TaskEnd(c)

WorldStep ==
    \/ WorldCheck
    \/ WorldRecvCheck
    \/ WorldRecvDrain
    \/ WorldSendCheck
    \/ WorldSendState
    \/ WorldPrune
    \/ WorldSleep
    \/ WorldClose

NextWorld ==
    \/ \E c \in Clients : TaskNewClient(c)
    \/ \E c \in Clients : TaskSocket(c)
    \/ \E c \in Clients : TaskQueue(c)
    \/ \E c \in Clients : TaskEvicted(c)
    \/ \E c \in Clients : TaskEnd(c)
    \/ WorldShutdown
    \/ WorldCheck
    \/ WorldRecvCheck
    \/ WorldRecvDrain
    \/ WorldSendCheck
    \/ WorldSendState
    \/ WorldPrune
    \/ WorldSleep
    \/ WorldClose

SpecWorld == InitWorld /\ [][NextWorld]_vars

\* the world loop of a server that no connection enters
NextAlone ==
    \/ WorldShutdown
    \/ WorldCheckAlone
    \/ WorldPrune
    \/ WorldSleep
    \/ WorldClose

SpecAlone == InitWorld /\ [][NextAlone]_vars

-----------------------------------------------------------------------------
(* The two mutexes of the Server, with run_loop and new_client followed    *)
(* from one lock operation to the next.                                    *)

Free(l) == locks[l] = "free"

\* the thread of the task of c, as a holder of a lock
Thread(c) == ToString(c)

\* a new_client that takes the clients lock first and keeps it over
\* enter_world
new_client_nested == <<"lock_clients", "lock_world", "unlock_world", "unlock_clients">>

\* Server::new_client, its lock operations: enter_world takes the world
\* lock and drops it when it returns, then clients.lock().push(client)
new_client_locks == <<"lock_world", "unlock_world", "lock_clients", "unlock_clients">>

\* the next lock operation of the task of c
TaskOp(c) ==
    IF task[c] = "new" /\ npc[c] < Len(new_client_locks)
    THEN new_client_locks[npc[c] + 1] ELSE "none"

\* what new_client sends up to that operation: the two light levels before
\* the world lock is taken, the Appearance under it
SendsAt(op) ==
    IF op = "lock_world" THEN SubSeq(enter_world, 1, 2)
    ELSE IF op = "unlock_world" THEN SubSeq(enter_world, 3, 3) ELSE <<>>

\* new_client up to and with its next lock operation
LockNewClient(c) ==
    /\ TaskOp(c) # "none"
    /\ TaskOp(c) = "lock_world" => Free("world")
    /\ TaskOp(c) = "lock_clients" => Free("clients")
    /\ locks' = [world |-> IF TaskOp(c) = "lock_world" THEN Thread(c)
                          ELSE IF TaskOp(c) = "unlock_world" THEN "free" ELSE locks.world,
                 clients |-> IF TaskOp(c) = "lock_clients" THEN Thread(c)
                            ELSE IF TaskOp(c) = "unlock_clients" THEN "free"
                            ELSE locks.clients]
    /\ outq' = [outq EXCEPT ![c] = SendAll(outq[c], SendsAt(TaskOp(c)))]
    /\ sent' = [sent EXCEPT ![c] = sent[c] \o SendsAt(TaskOp(c))]
    /\ registry' = IF TaskOp(c) = "unlock_clients" THEN Append(registry, c) ELSE registry
    /\ npc' = [npc EXCEPT ![c] = npc[c] + 1]
    /\ task' = [task EXCEPT ![c] =
                   IF npc[c] + 1 = Len(new_client_locks) THEN "loop" ELSE "new"]
    /\ UNCHANGED <<sock, inq, wopen, written, flag, wpc, wi, closed_clients, ticks,
                   snap, mark, live, world, fvars, cvars, nvars>>

\* while !self.shutdown.load(): the flag is seen
LoopSeesFlag == flag /\ run_loop_while(MaxTicks)

\* frame += 1; self.world.lock(); the world moves
LoopLockWorld ==
    /\ wpc = "check" /\ ~flag /\ ticks < MaxTicks
    /\ Free("world")
    /\ locks' = [locks EXCEPT !.world = "run_loop"]
    /\ ticks' = ticks + 1
    /\ world' = World_update(ticks + 1, world)
    /\ wpc' = "lock_clients"
    /\ UNCHANGED <<registry, task, npc, sock, inq, outq, wopen, written, sent, flag, wi,
                   closed_clients, snap, mark, live, fvars, cvars, nvars>>

\* self.clients.lock(); closed_clients = HashSet::new()
LoopLockClients ==
    /\ wpc = "lock_clients"
    /\ Free("clients")
    /\ locks' = [locks EXCEPT !.clients = "run_loop"]
    /\ wpc' = IF registry = <<>> THEN "prune" ELSE "recv_check"
    /\ wi' = 1
    /\ closed_clients' = {}
    /\ snap' = inq
    /\ mark' = [c \in Clients |-> Len(sent[c])]
    /\ live' = {c \in Range(registry) : task[c] # "ended"}
    /\ UNCHANGED <<registry, task, npc, sock, inq, outq, wopen, written, sent, flag,
                   ticks, world, fvars, cvars, nvars>>

\* after the loop: self.clients.lock(), client.close() for every client
LoopClose == Free("clients") /\ WorldClose

NextLocks ==
    \/ \E c \in Clients : LockNewClient(c)
    \/ WorldShutdown
    \/ LoopSeesFlag
    \/ LoopLockWorld
    \/ LoopLockClients
    \/ WorldRecvCheck
    \/ WorldRecvDrain
    \/ WorldSendCheck
    \/ WorldSendState
    \/ WorldPrune
    \/ WorldSleep
    \/ LoopClose

SpecLocks == InitWorld /\ [][NextLocks]_vars

\* the lock run_loop is about to take
LoopWants ==
    IF wpc = "check" /\ ~flag THEN "world"
    ELSE IF wpc \in {"lock_clients", "close"} THEN "clients" ELSE "none"

\* the lock the task of c is about to take
TaskWants(c) ==
    IF TaskOp(c) = "lock_world" THEN "world"
    ELSE IF TaskOp(c) = "lock_clients" THEN "clients" ELSE "none"

LoopWaits == LoopWants # "none" /\ ~Free(LoopWants)
TaskWaits(c) == TaskWants(c) # "none" /\ ~Free(TaskWants(c))

\* who waits for whom: <<the thread that waits, the thread that holds>>
WaitsFor ==
    {<<"run_loop", locks[LoopWants]>> : x \in IF LoopWaits THEN {1} ELSE {}}
       \cup {<<Thread(c), locks[TaskWants(c)]>> : c \in {d \in Clients : TaskWaits(d)}}

\* a set of threads each of which waits for a thread of the set
Deadlocked(D) == D # {} /\ \A e \in D : e[2] \in {d[1] : d \in D}

\* C36: run_loop and the new_client calls beside it never deadlock (of
\* the threads that wait for a lock, one waits for a thread that does not
\* wait); no thread waits for the world lock while it holds the clients
\* lock; and run_loop holds neither lock while it sleeps.
C36_NoDeadlock ==
    /\ \A D \in SUBSET WaitsFor : ~Deadlocked(D)
    /\ LoopWants = "world" => locks.clients # "run_loop"
    /\ \A c \in Clients : TaskWants(c) = "world" => locks.clients # Thread(c)
    /\ wpc = "sleep" => "run_loop" \notin {locks.world, locks.clients}

C36_Witness ==
    /\ wpc = "lock_clients" /\ locks.world = "run_loop" /\ locks.clients = Thread(1)
    /\ TaskWaits(2)

-----------------------------------------------------------------------------
(* Properties of the world loop and its clients.                           *)

NotPong(f) == f[1] # "PingAck"
IsSuccess(f) == f[1] = "Success"
NotSuccess(f) == f[1] # "Success"

\* what the task of c has had from the server -> client channel, and what
\* is still in it
Delivered(c) == SelectSeq(written[c], NotPong) \o outq[c]

\* C14: while the task of a connection is alive, the frames put into its
\* server -> client channel are, in the order they were put in, the frames
\* the task has written to the socket from the channel followed by the
\* frames still in the channel: each is written once, in order, none is
\* lost, within one iteration of the world loop and across iterations.
C14_OutboundFifo ==
    \A c \in Clients : task[c] # "ended" => sent[c] = Delivered(c)

C14_Witness ==
    /\ task[1] = "loop" /\ outq[1] = <<>>
    /\ {F("Success", 1), F("Success", 2), mobile_State(World_update(1, Server_new)),
        mobile_State(World_update(2, World_update(1, Server_new)))} \subseteq Range(written[1])

\* run_loop is not inside an iteration: the last one is complete, or was
\* left with an error
TickOver == wpc \in {"sleep", "returned_err"}

\* what was sent to c since the iteration began
ThisTick(c) == SubSeq(sent[c], mark[c] + 1, Len(sent[c]))

\* C15: when an iteration of the world loop is over, every client that was
\* registered and alive when it began, and still is, has been sent in that
\* iteration one movement::Success for each movement::Request that was in
\* its client -> server channel when the iteration began, in the order of
\* the requests, and beside answers to requests nothing but the
\* iteration's mobile::State (no other frame is answered); and no frame
\* that was in the channel when the iteration began is still in it.
C15_MovementAnswered ==
    TickOver =>
       \A c \in live :
          (c \in Range(registry) /\ task[c] # "ended") =>
             /\ IsPrefix(Replies(snap[c]), SelectSeq(ThisTick(c), IsSuccess))
             /\ SelectSeq(ThisTick(c), NotSuccess) \in {<<>>, <<mobile_State(world)>>}
             /\ Range(inq[c]) \cap Range(snap[c]) = {}

\* C16: the frames a connection gets from its server -> client channel
\* begin with MobLightLevel, WorldLightLevel, Appearance, in that order:
\* they are in the channel before the client is in the registry, so that
\* nothing the world loop sends comes before or between them.
C16_OnboardingFirst ==
    \A c \in Clients :
       (task[c] # "ended" /\ (c \in Range(registry) \/ sent[c] # <<>>))
          => IsPrefix(enter_world, Delivered(c))

C16_Witness ==
    /\ task[1] = "loop" /\ 1 \in Range(registry)
    /\ IsPrefix(enter_world, written[1])
    /\ mobile_State(World_update(1, Server_new)) \in Range(outq[1])

\* the entries of reg whose index is not in closed, in order, from index i on
RECURSIVE Kept(_, _, _)
Kept(reg, closed, i) ==
    IF i > Len(reg) THEN <<>>
    ELSE (IF i \in closed THEN <<>> ELSE <<reg[i]>>) \o Kept(reg, closed, i + 1)

\* the end of an iteration
PruneStep ==
    (wpc = "prune" /\ wpc' = "sleep") =>
       /\ registry' = Kept(registry, closed_clients, 1)
       /\ \A c \in Range(registry) : c \notin Range(registry') => task[c] = "ended"
       /\ Range(registry') \subseteq live

StateLast(c) ==
    /\ ThisTick(c) # <<>>
    /\ ThisTick(c)[Len(ThisTick(c))] = mobile_State(world)
    /\ SelectSeq(ThisTick(c), NotSuccess) = <<mobile_State(world)>>

\* C33: when an iteration of the world loop is over, every client that was
\* registered and open when it began, and still is, has been sent in it
\* exactly one mobile::State, with mob_x and mob_dir as that iteration
\* updated them, after all the movement::Success of the iteration for it.
C33_StateEachTick ==
    TickOver =>
       \A c \in live : (c \in Range(registry) /\ task[c] # "ended") => StateLast(c)

\* C18: run_loop never returns an error because a task dropped its ends of
\* the channels, at whatever moment it did.
C18_NoErrorFromDrop == wpc # "returned_err"

-----------------------------------------------------------------------------
(* Shutdown.  run_loop is a task of the runtime and is polled until it     *)
(* returns (its sleep ends); a task in its select! loop is polled whenever *)
(* its channel has a frame or is closed.                                   *)

Fairness ==
    /\ WF_vars(WorldStep)
    /\ \A c \in Clients : WF_vars(TaskQueue(c) \/ TaskEvicted(c))

SpecWorldLive == InitWorld /\ [][NextWorld]_vars /\ Fairness

\* run_loop has left its loop by the flag
Stopping == wpc \in {"close", "returned_ok"}

\* run_loop has returned Ok and the task of every client whose channel it
\* closed has ended
ShutDown ==
    /\ wpc = "returned_ok"
    /\ \A c \in Clients : ~wopen[c] => task[c] = "ended"

\* C19: once shutdown() has set the flag, run_loop, having seen it, begins
\* no further iteration, closes the server -> client channel of every
\* registered client and returns Ok, and the task of every registered
\* client then finds its channel closed and ends.
C19_ShutdownEvictsAll ==
    /\ [][Stopping => (ticks' = ticks /\ Stopping')]_vars
    /\ flag ~> ShutDown

\* C35: once shutdown() has set the flag, the task of every connection
\* that is in the world, or enters it later (its new_client running beside
\* or after the pass of run_loop that closes the registered clients),
\* eventually finds its channel closed and ends; a run_loop that has
\* returned an error is left aside.
C35_ShutdownReachesLate ==
    \A c \in Clients :
       (flag /\ task[c] = "loop") ~> (task[c] = "ended" \/ wpc = "returned_err")

-----------------------------------------------------------------------------
(* The select! of in_world, with a client that keeps sending and a world   *)
(* loop that keeps its channel filled.  Here written is what the socket    *)
(* has yet to send, and the channels are followed up to a length.          *)

MaxQueue == 3
MaxSock == 2
MaxBuf == 1

\* what the client sends
PeerFrames == {F("Request", 1), F("PingReq", 66), F("PingReq", 67)}

\* a select! that polls its branches in the order they are written
select_biased(ready, earlier) == ready /\ ~earlier

\* tokio::select! without "biased;": the branches are polled in an order
\* drawn anew each time, so that a ready branch can be taken whether or not
\* a branch written earlier is ready
select(ready, earlier) == ready

\* the frames of c that are under way
InFlight(c) == Range(sock[c]) \cup Range(inq[c]) \cup Range(written[c])

InitSelect ==
    /\ registry = <<1>>
    /\ task = [c \in Clients |-> IF c = 1 THEN "loop" ELSE "new"]
    /\ npc = [c \in Clients |-> IF c = 1 THEN Len(new_client) ELSE 0]
    /\ sock = [c \in Clients |-> <<>>]
    /\ inq = [c \in Clients |-> <<>>]
    /\ outq = [c \in Clients |-> IF c = 1 THEN enter_world ELSE <<>>]
    /\ wopen = [c \in Clients |-> TRUE]
    /\ written = [c \in Clients |-> <<>>]
    /\ sent = [c \in Clients |-> <<>>]
    /\ wpc = "check" /\ wi = 0 /\ closed_clients = {} /\ ticks = 0 /\ flag = FALSE
    /\ snap = [c \in Clients |-> <<>>]
    /\ mark = [c \in Clients |-> 0]
    /\ live = {}
    /\ world = Server_new
    /\ locks = Server_new_locks
    /\ IdleFramer
    /\ IdleCodec
    /\ IdleNet

\* the client sends a frame (one that can be told from those under way)
PeerSends(c) ==
    /\ task[c] = "loop" /\ Len(sock[c]) < MaxSock
    /\ \E f \in PeerFrames :
          /\ f \notin InFlight(c) /\ F("PingAck", f[2]) \notin InFlight(c)
          /\ sock' = [sock EXCEPT ![c] = Append(sock[c], f)]
    /\ UNCHANGED <<registry, task, npc, inq, outq, wopen, written, sent, flag, loopvars,
                   fvars, cvars, nvars>>

\* the socket sends what was written to it
SocketSends(c) ==
    /\ written[c] # <<>>
    /\ written' = [written EXCEPT ![c] = Tail(written[c])]
    /\ UNCHANGED <<registry, task, npc, sock, inq, outq, wopen, sent, flag, loopvars,
                   fvars, cvars, nvars>>

\* select!: the branch of state.recv(); a write waits for the socket
SelectSocket(c) ==
    /\ select(sock[c] # <<>>, FALSE)
    /\ Len(written[c]) < MaxBuf /\ Len(inq[c]) < MaxQueue
    /\ TaskSocket(c)

\* select!: the branch of client.receiver.recv()
SelectQueue(c) ==
    /\ select(outq[c] # <<>>, sock[c] # <<>>)
    /\ Len(written[c]) < MaxBuf
    /\ TaskQueue(c)

\* an iteration of run_loop with c its only client, in one step: the world
\* moves (with a period of 20 iterations), the requests of c are answered
\* and the mobile::State is sent
WorldIteration(c) ==
    /\ task[c] = "loop"
    /\ Len(outq[c]) + Len(Replies(inq[c])) < MaxQueue
    /\ ticks' = (ticks % 20) + 1
    /\ world' = World_update((ticks % 20) + 1, world)
    /\ inq' = [inq EXCEPT ![c] = <<>>]
    /\ outq' = [outq EXCEPT ![c] =
                   WorldClient_send(SendAll(outq[c], Replies(inq[c])),
                                    mobile_State(World_update((ticks % 20) + 1, world)))]
    /\ UNCHANGED <<registry, task, npc, sock, wopen, written, sent, flag, wpc, wi,
                   closed_clients, snap, mark, live, locks, fvars, cvars, nvars>>

NextSelect ==
    \/ PeerSends(1)
    \/ SocketSends(1)
    \/ SelectSocket(1)
    \/ SelectQueue(1)
    \/ WorldIteration(1)
    \/ TaskEnd(1)

\* the task is polled while a branch of its select! is ready, and each poll
\* draws the order of the branches anew: a branch that is ready again and
\* again is taken; the socket sends, and the world loop runs
SelectFairness ==
    /\ SF_vars(SelectSocket(1))
    /\ SF_vars(SelectQueue(1))
    /\ WF_vars(SocketSends(1))
    /\ WF_vars(WorldIteration(1))

SpecSelect == InitSelect /\ [][NextSelect]_vars /\ SelectFairness

\* the last frame written to the socket of c is f
Wrote(c, f) == written[c] # <<>> /\ written[c][Len(written[c])] = f

\* the frame f read from the socket of c has been handled
Handled(c, f) ==
    IF f[1] = "PingReq" THEN Wrote(c, F("PingAck", f[2]))
    ELSE inq[c] # <<>> /\ inq[c][Len(inq[c])] = f

\* the mobile::State frames of a period of the world
RECURSIVE Period(_, _)
Period(frame, w) ==
    IF frame > 20 THEN {}
    ELSE {mobile_State(World_update(frame, w))} \cup Period(frame + 1, World_update(frame, w))

\* C34: in the select! loop a frame in the server -> client channel is
\* eventually written to the socket, whatever the client sends meanwhile,
\* and a frame the socket holds is eventually handled (answered if it is a
\* PingReq, passed to the world otherwise), whatever the world loop puts
\* into the channel meanwhile, unless the connection ends first.
C34_NoStarvation ==
    /\ \A f \in Period(1, Server_new) :
          (f \in Range(outq[1])) ~> (Wrote(1, f) \/ task[1] = "ended")
    /\ \A f \in PeerFrames :
          (f \in Range(sock[1])) ~> (Handled(1, f) \/ task[1] = "ended")

C34_Witness ==
    /\ task[1] = "loop" /\ ticks = 20
    /\ Len(sock[1]) = MaxSock /\ Len(outq[1]) = MaxQueue
    /\ Wrote(1, F("PingAck", 66))

-----------------------------------------------------------------------------
(* The mobile of the world.                                                *)

\* an iteration begins: the world is updated
Updates == ticks' = ticks + 1

MovedWith(dir, dx) == world'.mob_dir = dir <=> world'.mob_x = world.mob_x + dx

\* C37: mob_x stays within 3667..3677 (so that the u16 is never
\* incremented at 65535 or decremented at 0) and mob_dir is East or West;
\* and an iteration leaves mob_dir West exactly when it decremented mob_x,
\* East exactly when it incremented it.
C37_MobileBounded ==
    /\ [](world.mob_x \in 3667..3677 /\ world.mob_dir \in {East, West})
    /\ [][Updates => (MovedWith(West, -1) /\ MovedWith(East, 1))]_vars

C37_Witness ==
    /\ ticks = 20 /\ wpc = "sleep" /\ world = [mob_x |-> 3668, mob_dir |-> East]

-----------------------------------------------------------------------------
(* The login server and a password that is not accepted.                   *)

\* LoginRejectionReason::BadPass
BadPass == 3

\* the packets written to the client so far, in order
SentPackets == PktNames(SelectSeq(log, IsSend))

\* C20: when the password of the AccountLogin does not begin with "test",
\* the login server writes LoginRejection with reason BadPass, the two bytes
\* 82 03, and nothing else, and the connection ends there: no ServerList or
\* GameServerHandoff is written and the connection is never in ServerSelect
\* or Handoff.
C20_BadPassRejected ==
    (driver \in {"process", "fsm"} /\ badpass) =>
        /\ IsPrefix(SentPackets, <<"LoginRejection">>)
        /\ phase \notin {"login::ServerSelect", "login::Handoff"}
        /\ (status # "running" /\ ~dead) => SentPackets = <<"LoginRejection">>
        /\ write_packet(LoginRejection, <<BadPass>>) = <<130, 3>>
====
